---- MODULE Spec2Model ----
(***************************************************************************)
(* Model of the intelligent search core of mcp-awesome-copilot:             *)
(*   - IntentRouter   (server/src/intentRouter.ts)                          *)
(*   - SearchRouter   (server/src/index.ts, second half)                    *)
(*   - TelemetryService (server/src/telemetry.ts)                           *)
(*   - the catalog tools (server/src/index.ts, first half) and the         *)
(*     ExtensionCacheService they read (server/src/extensionCache.ts)      *)
(*                                                                         *)
(* Representation choices.                                                  *)
(*  - Confidence values are IEEE doubles in the source.  They are kept in   *)
(*    thousandths (0.5 is 500).  The only sums of the classifier that are   *)
(*    not exact in double precision are 0.7 + 0.1 and 0.7 + 0.2, which      *)
(*    round just below 0.8 and 0.9; FloatBoost reproduces them as 799 and   *)
(*    899.                                                                  *)
(*  - A string is the sequence of its whitespace-separated words, so that   *)
(*    join(" ") is concatenation and split(/\s+/) is the identity.          *)
(*  - A query is abstracted to what the classifier reads from it: how many  *)
(*    patterns of each family it matches, which technology keywords it      *)
(*    contains, which key phrases it has, and its remaining long words.     *)
(***************************************************************************)
EXTENDS Integers, Sequences, FiniteSets, TLC

VARIABLES
    \* ---- IntentRouter calls (introspection entry points)
    query,          \* the query of the last analyzeIntent/createSearchStrategy call
    callPrefs,      \* the Partial<MCPPreferences> passed to that call
    intent,         \* the QueryIntent it returned
    plan,           \* the SearchStrategy it returned (createSearchStrategy)
    routerDefaults, \* IntentRouter.defaultPreferences (the field of the object)
    answers,        \* history: the analyzeIntent calls made and what they returned
    \* ---- TelemetryService
    events,         \* TelemetryService.events
    enabled,        \* TelemetryService.enabled
    clock,          \* wall clock read by new Date() in trackEvent
    recorded,       \* history: events accepted since the last clearData
    lastOp,         \* the last telemetry operation called
    returned,       \* what the last call of the service returned (None: void)
    \* ---- SearchRouter
    userPreferences,\* SearchRouter.userPreferences
    updates,        \* number of updatePreferences calls made
    snapshot,       \* the object the last getPreferences call returned
    prefsOp,        \* history: the last preferences call and the state before it
    inv,            \* one record per search() invocation (its locals and position)
    scored,         \* the last backend item a SearchResult was built from
    \* ---- catalog server (module state of server/src/index.ts)
    cachedItems,    \* the in-memory catalog cache (None: null)
    cachedAt,       \* when it was filled, in hours (None: null)
    CONTENT_REPO,   \* the repository the catalog is read from
    MAX_ITEMS,      \* most items one index build keeps
    CACHE_TTL_HOURS,\* lifetime of a cache
    dateNow,        \* Date.now(), in hours
    storage,        \* the extension's storage.json as found on disk
    req             \* one record per tool request (its locals and position)

callVars == <<query, callPrefs, intent, plan, routerDefaults, answers>>
telemetryVars == <<events, enabled, clock, recorded, lastOp, returned>>
routerVars == <<userPreferences, updates, snapshot, prefsOp, inv>>
configVars == <<CONTENT_REPO, MAX_ITEMS, CACHE_TTL_HOURS>>
cacheVars == <<cachedItems, cachedAt>>
serverVars == <<cachedItems, cachedAt, CONTENT_REPO, MAX_ITEMS,
                CACHE_TTL_HOURS, dateNow, storage, req>>

vars == <<query, callPrefs, intent, plan, routerDefaults, answers, events,
          enabled, clock, recorded, lastOp, returned, userPreferences, updates,
          snapshot, prefsOp, inv, scored, cachedItems, cachedAt,
          CONTENT_REPO, MAX_ITEMS, CACHE_TTL_HOURS, dateNow, storage, req>>

(***************************************************************************)
(* Bounds of the model                                                      *)
(***************************************************************************)
MaxPatternHits == 4     \* a query matches at most this many patterns in all
MaxTech == 3            \* ... and contains at most this many technology keywords
MaxWords == 4           \* ... and at most this many other long words
MaxCatalogItems == 6    \* items in one reply of the catalog backend
MaxWebItems == 2        \* items in one reply of the web backend
MaxUpdates == 1         \* updatePreferences calls in one run
MaxTracked == 3         \* telemetry calls of one run of the small telemetry model
ExtraCalls == 3         \* telemetry calls beyond the log capacity in the eviction model

Min(a, b) == IF a < b THEN a ELSE b
Max(a, b) == IF a > b THEN a ELSE b

(***************************************************************************)
(* IntentRouter                                                             *)
(***************************************************************************)
\* Object.entries order of intentPatterns
IntentOrder ==
    <<"best_practices", "how_to_build", "architecture_guidance",
      "code_patterns", "framework_setup", "debugging_help">>

Categories == {IntentOrder[i] : i \in 1..Len(IntentOrder)}

\* number of regular expressions in each family
PatternCount ==
    [best_practices |-> 13, how_to_build |-> 7, architecture_guidance |-> 8,
     code_patterns |-> 7, framework_setup |-> 13, debugging_help |-> 7]

\* Technology keywords a modelled query may contain, in vocabulary order
\* (none is a substring of another, none occurs in the phrases below).
TechVocabulary == <<"kotlin", "rust", "swift", "flask", "docker", "terraform">>

\* A key phrase matched by /(?:best|good|proper|standard|recommended)\s+\w+/
KeyPhrases == <<<<"proper", "naming">>>>

\* Words longer than 3 characters that are no stop word, keyword or phrase
PlainWords == <<"latest", "version", "features", "release", "notes", "trends">>

PrefFields == {"mcpFirst", "mcpOnlyForBestPractices", "fallbackToWeb",
               "minConfidenceThreshold"}

defaultPreferences ==
    [mcpFirst |-> TRUE, mcpOnlyForBestPractices |-> FALSE,
     fallbackToWeb |-> TRUE, minConfidenceThreshold |-> 600]

\* { ...base, ...partial }
Spread(base, partial) ==
    [f \in DOMAIN base \cup DOMAIN partial |->
        IF f \in DOMAIN partial THEN partial[f] ELSE base[f]]

\* mutant: the base 0.3 is left out
CandidateConfidence_NoBase(matches) == Min(900, matches * 200)

\* Math.min(0.9, 0.3 + matches * 0.2)
CandidateConfidence(matches) == Min(900, 300 + matches * 200)

\* best + n * 0.1 in double precision (see the header)
FloatBoost(best, n) ==
    IF best = 700 /\ n \in {1, 2} THEN best + n * 100 - 1 ELSE best + n * 100

\* mutant: a later family replaces an earlier one of equal confidence
RECURSIVE ScanPatterns_LastWins(_, _, _)
ScanPatterns_LastWins(hits, i, bestMatch) ==
    IF i > Len(IntentOrder) THEN bestMatch
    ELSE LET intentType == IntentOrder[i]
             matches == hits[intentType]
             confidence == CandidateConfidence(matches)
         IN  IF matches > 0 /\ confidence >= bestMatch.confidence
             THEN ScanPatterns_LastWins(hits, i + 1,
                               [type |-> intentType, confidence |-> confidence])
             ELSE ScanPatterns_LastWins(hits, i + 1, bestMatch)

\* mutant: the first family with a match is kept, whatever its confidence
RECURSIVE ScanPatterns_FirstMatchWins(_, _, _)
ScanPatterns_FirstMatchWins(hits, i, bestMatch) ==
    IF i > Len(IntentOrder) THEN bestMatch
    ELSE LET intentType == IntentOrder[i]
             matches == hits[intentType]
             confidence == CandidateConfidence(matches)
         IN  IF matches > 0
             THEN [type |-> intentType, confidence |-> confidence]
             ELSE ScanPatterns_FirstMatchWins(hits, i + 1, bestMatch)

\* the for-loop over Object.entries(intentPatterns), from family i on
RECURSIVE ScanPatterns(_, _, _)
ScanPatterns(hits, i, bestMatch) ==
    IF i > Len(IntentOrder) THEN bestMatch
    ELSE LET intentType == IntentOrder[i]
             matches == hits[intentType]
             confidence == CandidateConfidence(matches)
         IN  IF matches > 0 /\ confidence > bestMatch.confidence
             THEN ScanPatterns(hits, i + 1,
                               [type |-> intentType, confidence |-> confidence])
             ELSE ScanPatterns(hits, i + 1, bestMatch)

\* technologyKeywords.filter(keyword => normalizedQuery.includes(keyword))
TechKeywordsOf(q) == SubSeq(TechVocabulary, 1, q.tech)

\* mutant: the boosted confidence is not clamped
BoostConfidence_NoClamp(bestMatch, techKeywords) ==
    IF Len(techKeywords) > 0 /\ bestMatch.confidence > 300
    THEN [bestMatch EXCEPT
            !.confidence = FloatBoost(bestMatch.confidence, Len(techKeywords))]
    ELSE bestMatch

\* mutant: the boost is applied a second time to the boosted confidence
BoostConfidence_Twice(bestMatch, techKeywords) ==
    IF Len(techKeywords) > 0 /\ bestMatch.confidence > 300
    THEN [bestMatch EXCEPT
            !.confidence =
                Min(950, FloatBoost(Min(950, FloatBoost(bestMatch.confidence,
                                                        Len(techKeywords))),
                                    Len(techKeywords)))]
    ELSE bestMatch

\* the technology boost
BoostConfidence(bestMatch, techKeywords) ==
    IF Len(techKeywords) > 0 /\ bestMatch.confidence > 300
    THEN [bestMatch EXCEPT
            !.confidence = Min(950, FloatBoost(bestMatch.confidence,
                                               Len(techKeywords)))]
    ELSE bestMatch

\* mutant: the first rule does not read mcpFirst
DecideShouldUseMCP_IgnoresMcpFirst(prefs, bestMatch, techKeywords) ==
    IF bestMatch.confidence >= prefs.minConfidenceThreshold
    THEN TRUE
    ELSE IF prefs.mcpOnlyForBestPractices /\ bestMatch.type = "best_practices"
    THEN TRUE
    ELSE IF Len(techKeywords) > 0 /\ bestMatch.confidence > 400
    THEN TRUE
    ELSE FALSE

\* the rule chain that decides shouldUseMCP
DecideShouldUseMCP(prefs, bestMatch, techKeywords) ==
    IF prefs.mcpFirst /\ bestMatch.confidence >= prefs.minConfidenceThreshold
    THEN TRUE
    ELSE IF prefs.mcpOnlyForBestPractices /\ bestMatch.type = "best_practices"
    THEN TRUE
    ELSE IF Len(techKeywords) > 0 /\ bestMatch.confidence > 400
    THEN TRUE
    ELSE FALSE

\* which branch of the rule chain fired (the reasoning string)
ReasoningOf(prefs, bestMatch, techKeywords) ==
    IF prefs.mcpFirst /\ bestMatch.confidence >= prefs.minConfidenceThreshold
    THEN "High confidence"
    ELSE IF prefs.mcpOnlyForBestPractices /\ bestMatch.type = "best_practices"
    THEN "Best practices query"
    ELSE IF Len(techKeywords) > 0 /\ bestMatch.confidence > 400
    THEN "Technology-specific query"
    ELSE "Low confidence"

\* number of characters of a phrase once joined with single blanks
RECURSIVE PhraseLength(_)
PhraseLength(words) ==
    IF words = <<>> THEN 0
    ELSE Len(Head(words)) + (IF Len(words) > 1 THEN 1 ELSE 0)
         + PhraseLength(Tail(words))

\* Set insertion order: append unless already present
RECURSIVE AddAll(_, _)
AddAll(terms, more) ==
    IF more = <<>> THEN terms
    ELSE LET t == Head(more)
         IN  AddAll(IF \E i \in 1..Len(terms) : terms[i] = t
                    THEN terms ELSE Append(terms, t),
                    Tail(more))

SelectLong(phrases) == SelectSeq(phrases, LAMBDA p : PhraseLength(p) > 3)

generateSearchTerms(q, techKeywords) ==
    LET techTerms == [i \in 1..Len(techKeywords) |-> <<techKeywords[i]>>]
        withTech == AddAll(<<>>, techTerms)
        withPhrases == AddAll(withTech,
                              SelectLong(SubSeq(KeyPhrases, 1, q.phrases)))
        words == [i \in 1..q.words |-> <<PlainWords[i]>>]
        terms == IF Len(withPhrases) = 0
                 THEN AddAll(<<>>, SubSeq(words, 1, Min(3, Len(words))))
                 ELSE withPhrases
    IN  SubSeq(terms, 1, Min(5, Len(terms)))

\* analyzeIntent on a router whose defaultPreferences field holds defaults
analyzeIntentOn(defaults, q, preferences) ==
    LET prefs == Spread(defaults, preferences)
        scanned == ScanPatterns(q.hits, 1,
                                [type |-> "general_question", confidence |-> 0])
        techKeywords == TechKeywordsOf(q)
        bestMatch == BoostConfidence(scanned, techKeywords)
    IN  [shouldUseMCP |-> DecideShouldUseMCP(prefs, bestMatch, techKeywords),
         confidence |-> bestMatch.confidence,
         intentType |-> bestMatch.type,
         suggestedSearchTerms |-> generateSearchTerms(q, techKeywords),
         reasoning |-> ReasoningOf(prefs, bestMatch, techKeywords)]

\* analyzeIntent on a router as constructed
analyzeIntent(q, preferences) ==
    analyzeIntentOn(defaultPreferences, q, preferences)

\* mutant: the call merges its preferences into the field
\* (Object.assign(this.defaultPreferences, preferences))
FieldAfterCall_Assigned(defaults, preferences) == Spread(defaults, preferences)

\* this.defaultPreferences after an analyzeIntent or createSearchStrategy
\* call: the spread at lines 127 and 217 builds a new object and the field is
\* not written.  (The other fields are the pattern and keyword tables; the
\* patterns carry the flag i only, so test() keeps no lastIndex.)
FieldAfterCall(defaults, preferences) == defaults

\* Array.join(" ") in the word-sequence representation of strings
RECURSIVE JoinTerms(_)
JoinTerms(terms) ==
    IF terms = <<>> THEN <<>> ELSE Head(terms) \o JoinTerms(Tail(terms))

\* mutant: the web fallback is planned whatever fallbackToWeb says
planSearchSteps_AlwaysFallback(i, prefs) ==
    IF i.shouldUseMCP
    THEN <<[type |-> "mcp_search", query |-> JoinTerms(i.suggestedSearchTerms),
            priority |-> "high"],
           [type |-> "web_search", query |-> JoinTerms(i.suggestedSearchTerms),
            priority |-> "fallback"]>>
    ELSE <<[type |-> "web_search", query |-> JoinTerms(i.suggestedSearchTerms),
            priority |-> "high"]>>
         \o (IF i.confidence > 300
             THEN <<[type |-> "mcp_search",
                     query |-> JoinTerms(i.suggestedSearchTerms),
                     priority |-> "supplementary"]>>
             ELSE <<>>)

\* mutant: the catalog step of a web-first plan is pushed as a fallback
planSearchSteps_CatalogFallback(i, prefs) ==
    IF i.shouldUseMCP
    THEN <<[type |-> "mcp_search", query |-> JoinTerms(i.suggestedSearchTerms),
            priority |-> "high"]>>
         \o (IF prefs.fallbackToWeb
             THEN <<[type |-> "web_search",
                     query |-> JoinTerms(i.suggestedSearchTerms),
                     priority |-> "fallback"]>>
             ELSE <<>>)
    ELSE <<[type |-> "web_search", query |-> JoinTerms(i.suggestedSearchTerms),
            priority |-> "high"]>>
         \o (IF i.confidence > 300
             THEN <<[type |-> "mcp_search",
                     query |-> JoinTerms(i.suggestedSearchTerms),
                     priority |-> "fallback"]>>
             ELSE <<>>)

planSearchSteps(i, prefs) ==
    IF i.shouldUseMCP
    THEN <<[type |-> "mcp_search", query |-> JoinTerms(i.suggestedSearchTerms),
            priority |-> "high"]>>
         \o (IF prefs.fallbackToWeb
             THEN <<[type |-> "web_search",
                     query |-> JoinTerms(i.suggestedSearchTerms),
                     priority |-> "fallback"]>>
             ELSE <<>>)
    ELSE <<[type |-> "web_search", query |-> JoinTerms(i.suggestedSearchTerms),
            priority |-> "high"]>>
         \o (IF i.confidence > 300
             THEN <<[type |-> "mcp_search",
                     query |-> JoinTerms(i.suggestedSearchTerms),
                     priority |-> "supplementary"]>>
             ELSE <<>>)

explainStrategy(i, prefs) ==
    IF i.shouldUseMCP THEN "Searching curated content first"
    ELSE "Using web search for general query with MCP as supplement"

\* createSearchStrategy on a router whose field holds defaults
createSearchStrategyOn(defaults, q, preferences) ==
    LET i == analyzeIntentOn(defaults, q, preferences)
        prefs == Spread(defaults, preferences)
    IN  [intent |-> i,
         steps |-> planSearchSteps(i, prefs),
         explanation |-> explainStrategy(i, prefs)]

createSearchStrategy(q, preferences) ==
    createSearchStrategyOn(defaultPreferences, q, preferences)

(***************************************************************************)
(* Inputs of the classifier                                                 *)
(***************************************************************************)
RECURSIVE SumHits(_, _)
SumHits(h, i) == IF i > Len(IntentOrder) THEN 0
                 ELSE h[IntentOrder[i]] + SumHits(h, i + 1)

HitVectors ==
    {h \in [Categories -> 0..MaxPatternHits] :
        /\ SumHits(h, 1) <= MaxPatternHits
        /\ \A c \in Categories : h[c] <= PatternCount[c]}

\* Every pattern except /why\s+(is|does)/ needs a query word longer than 3
\* characters that is no stop word
NeedsLongWord(h) ==
    \/ \E c \in Categories \ {"debugging_help"} : h[c] > 0
    \/ h["debugging_help"] > 1

\* words is read by generateSearchTerms only when no keyword and no key phrase
\* was found, so it is varied only there
WellFormed(q) ==
    /\ (q.tech > 0 \/ q.phrases > 0) => q.words = 0
    /\ (q.tech = 0 /\ q.phrases = 0 /\ NeedsLongWord(q.hits)) => q.words > 0

Queries ==
    {q \in [hits : HitVectors, tech : 0..MaxTech, phrases : 0..Len(KeyPhrases),
            words : 0..MaxWords] : WellFormed(q)}

Thresholds == {600, 800}

FullPreferences ==
    [mcpFirst : BOOLEAN, mcpOnlyForBestPractices : BOOLEAN,
     fallbackToWeb : BOOLEAN, minConfidenceThreshold : Thresholds]

EmptyPreferences == [f \in {} |-> TRUE]

\* preferences arguments: {} (the default argument) or all four fields
PreferenceArgs == FullPreferences \cup {EmptyPreferences}

None == [none |-> TRUE]

(***************************************************************************)
(* TelemetryService                                                         *)
(***************************************************************************)
MAX_EVENTS == 1000

\* Array.prototype.slice(start) for any integer start
SliceFrom(s, start) ==
    LET from == IF start < 0 THEN Max(Len(s) + start, 0) ELSE Min(start, Len(s))
    IN  SubSeq(s, from + 1, Len(s))

\* { ...event, timestamp: new Date().toISOString() }
Stamp(event, now) == [event EXCEPT !.timestamp = now]

\* mutant: the event is put at the head of the log (unshift for push)
trackEvent_Prepends(evs, en, now, event) ==
    IF ~en THEN evs
    ELSE LET pushed == <<Stamp(event, now)>> \o evs
         IN  IF Len(pushed) > MAX_EVENTS THEN SliceFrom(pushed, 0 - MAX_EVENTS)
             ELSE pushed

\* mutant: the enabled flag is not read
trackEvent_AlwaysRecords(evs, en, now, event) ==
    LET pushed == Append(evs, Stamp(event, now))
    IN  IF Len(pushed) > MAX_EVENTS THEN SliceFrom(pushed, 0 - MAX_EVENTS)
        ELSE pushed

\* TelemetryService.trackEvent: the value of this.events after the call
trackEvent(evs, en, now, event) ==
    IF ~en THEN evs
    ELSE LET pushed == Append(evs, Stamp(event, now))
         IN  IF Len(pushed) > MAX_EVENTS THEN SliceFrom(pushed, 0 - MAX_EVENTS)
             ELSE pushed

MCPConsultationEvent(q, duration) ==
    [timestamp |-> 0, eventType |-> "mcp_consulted", query |-> q,
     source |-> "mcp", resultCount |-> 0, success |-> TRUE,
     duration |-> duration]

MCPResourcesFoundEvent(q, resultCount, duration) ==
    [timestamp |-> 0, eventType |-> "mcp_resources_found", query |-> q,
     source |-> "mcp", resultCount |-> resultCount, success |-> TRUE,
     duration |-> duration]

MCPResourcesNotFoundEvent(q, duration) ==
    [timestamp |-> 0, eventType |-> "mcp_resources_not_found", query |-> q,
     source |-> "mcp", resultCount |-> 0, success |-> FALSE,
     duration |-> duration]

FallbackToWebEvent(q, mcpResultCount, duration) ==
    [timestamp |-> 0, eventType |-> "fallback_to_web", query |-> q,
     source |-> "web", resultCount |-> mcpResultCount, success |-> TRUE,
     duration |-> duration]

SearchCompletedEvent(q, totalResults, duration, sources) ==
    [timestamp |-> 0, eventType |-> "search_completed", query |-> q,
     source |-> IF \E i \in 1..Len(sources) : sources[i] = "mcp"
                THEN "mcp" ELSE "web",
     resultCount |-> totalResults, success |-> totalResults > 0,
     duration |-> duration]

\* a run of trackEvent calls, one per element of es, each at the next clock tick
RECURSIVE TrackEach(_, _, _, _)
TrackEach(evs, en, now, es) ==
    IF es = <<>> THEN evs
    ELSE TrackEach(trackEvent(evs, en, now + 1, Head(es)), en,
                   IF en THEN now + 1 ELSE now, Tail(es))

\* history of the events handed to an enabled service, never evicted
RECURSIVE RecordEach(_, _, _, _)
RecordEach(hist, en, now, es) ==
    IF es = <<>> \/ ~en THEN hist
    ELSE RecordEach(Append(hist, Stamp(Head(es), now + 1)), en, now + 1, Tail(es))

\* the telemetry part of a step that makes the calls es
Telemetry(es, op) ==
    /\ events' = TrackEach(events, enabled, clock, es)
    /\ recorded' = RecordEach(recorded, enabled, clock, es)
    /\ clock' = IF enabled THEN clock + Len(es) ELSE clock
    /\ lastOp' = op

\* mutant: the newest event survives
clearData_KeepsNewest(evs) == SliceFrom(evs, 0 - 1)

clearData(evs) == <<>>

setEnabled(en, b) == b

\* ---- getStats
\* mutant: only successful events are counted
CountOfType_Successful(evs, type) ==
    Len(SelectSeq(evs, LAMBDA e : e.eventType = type /\ e.success))

\* this.events.filter(e => e.eventType === type).length
CountOfType(evs, type) == Len(SelectSeq(evs, LAMBDA e : e.eventType = type))

\* Math.round(a / b) for a >= 0 and b > 0
RoundDiv(a, b) == (2 * a + b) \div (2 * b)

RECURSIVE SumDurations(_)
SumDurations(evs) ==
    IF evs = <<>> THEN 0 ELSE Head(evs).duration + SumDurations(Tail(evs))

averageResponseTime(evs) ==
    LET durations == SelectSeq(evs, LAMBDA e : e.duration > 0)
    IN  IF Len(durations) > 0
        THEN RoundDiv(SumDurations(durations), Len(durations)) ELSE 0

\* keys of queryMap, in insertion order
RECURSIVE QueryKeys(_, _)
QueryKeys(evs, keys) ==
    IF evs = <<>> THEN keys
    ELSE QueryKeys(Tail(evs),
                   IF \E i \in 1..Len(keys) : keys[i] = Head(evs).query
                   THEN keys ELSE Append(keys, Head(evs).query))

\* Array.from(queryMap.entries())
QueryEntries(evs) ==
    LET keys == QueryKeys(evs, <<>>)
    IN  [k \in 1..Len(keys) |->
           [query |-> keys[k],
            count |-> Cardinality({i \in 1..Len(evs) : evs[i].query = keys[k]}),
            successful |->
               Cardinality({i \in 1..Len(evs) :
                               evs[i].query = keys[k] /\ evs[i].success})]]

\* stable insertion by descending count
RECURSIVE InsertByCount(_, _)
InsertByCount(s, x) ==
    IF s = <<>> THEN <<x>>
    ELSE IF Head(s).count - x.count > 0 \/ Head(s).count = x.count
    THEN <<Head(s)>> \o InsertByCount(Tail(s), x)
    ELSE <<x>> \o s

\* .sort((a, b) => b.count - a.count): Array.prototype.sort is stable
RECURSIVE SortByCount(_)
SortByCount(s) ==
    IF s = <<>> THEN <<>>
    ELSE InsertByCount(SortByCount(SubSeq(s, 1, Len(s) - 1)), s[Len(s)])

\* successRate in hundredths: Math.round(successful / count * 100) / 100
topQueries(evs) ==
    LET entries == QueryEntries(evs)
        mapped == [k \in 1..Len(entries) |->
                     [query |-> entries[k].query, count |-> entries[k].count,
                      successRate |-> IF entries[k].count > 0
                                      THEN RoundDiv(entries[k].successful * 100,
                                                    entries[k].count)
                                      ELSE 0]]
        sorted == SortByCount(mapped)
    IN  SubSeq(sorted, 1, Min(10, Len(sorted)))

\* .filter(count >= 2 && successful === 0).map(...).slice(0, 5)
resourceGaps(evs) ==
    LET failing == SelectSeq(QueryEntries(evs),
                             LAMBDA e : e.count >= 2 /\ e.successful = 0)
        mapped == [k \in 1..Len(failing) |->
                     [query |-> failing[k].query, attempts |-> failing[k].count,
                      reason |-> "No matching curated content found"]]
    IN  SubSeq(mapped, 1, Min(5, Len(mapped)))

\* q.query.toLowerCase().includes('java' | 'spring' | 'react' | 'python'),
\* for queries whose words are either one of these or contain none of them
CoverageWords == {"java", "spring", "react", "python"}

MentionsCoverageWord(q) ==
    /\ "text" \in DOMAIN q
    /\ \E i \in 1..Len(q.text) : q.text[i] \in CoverageWords

\* mutant: the rule on the overall success rate needs no minimum number of
\* consultations
SuccessRateRule_Ungated(total, successful) ==
    IF total > 0
    THEN IF 10 * successful < 3 * total THEN <<[rule |-> "low success rate"]>>
         ELSE IF 10 * successful > 8 * total
         THEN <<[rule |-> "high success rate"]>>
         ELSE <<>>
    ELSE <<>>

\* lines 268-275: successful / total < 0.3, > 0.8
SuccessRateRule(total, successful) ==
    IF total > 10
    THEN IF 10 * successful < 3 * total THEN <<[rule |-> "low success rate"]>>
         ELSE IF 10 * successful > 8 * total
         THEN <<[rule |-> "high success rate"]>>
         ELSE <<>>
    ELSE <<>>

\* a suggestion is the rule that produced it and the values it prints
generateImprovementSuggestions(stats) ==
    LET techQueries == SelectSeq(stats.topQueries,
                                 LAMBDA q : MentionsCoverageWord(q.query))
    IN  (IF stats.fallbackToWebCount > stats.successfulMCPConsultations
         THEN <<[rule |-> "high fallback rate"]>> ELSE <<>>)
        \o (IF Len(stats.resourceGaps) > 0
            THEN <<[rule |-> "most requested missing content",
                    query |-> stats.resourceGaps[1].query,
                    attempts |-> stats.resourceGaps[1].attempts]>>
            ELSE <<>>)
        \o (IF stats.averageResponseTime > 1000
            THEN <<[rule |-> "slow response"]>> ELSE <<>>)
        \o (IF Len(techQueries) > 0 /\ techQueries[1].successRate < 50
            THEN <<[rule |-> "low success rate for query",
                    query |-> techQueries[1].query]>>
            ELSE <<>>)
        \o SuccessRateRule(stats.totalConsultations,
                           stats.successfulMCPConsultations)

EmptyStats ==
    [totalConsultations |-> 0, successfulMCPConsultations |-> 0,
     unsuccessfulMCPConsultations |-> 0, fallbackToWebCount |-> 0,
     averageResponseTime |-> 0, topQueries |-> <<>>, resourceGaps |-> <<>>,
     improvementSuggestions |-> <<>>]

getStats(evs) ==
    IF Len(evs) = 0 THEN EmptyStats
    ELSE LET stats ==
                [totalConsultations |-> CountOfType(evs, "mcp_consulted"),
                 successfulMCPConsultations |->
                    CountOfType(evs, "mcp_resources_found"),
                 unsuccessfulMCPConsultations |->
                    CountOfType(evs, "mcp_resources_not_found"),
                 fallbackToWebCount |-> CountOfType(evs, "fallback_to_web"),
                 averageResponseTime |-> averageResponseTime(evs),
                 topQueries |-> topQueries(evs),
                 resourceGaps |-> resourceGaps(evs),
                 improvementSuggestions |-> <<>>]
         IN  [stats EXCEPT !.improvementSuggestions =
                              generateImprovementSuggestions(stats)]

\* this.events.slice(-limit)
getRecentEvents(evs, limit) == SliceFrom(evs, 0 - limit)

(***************************************************************************)
(* State after construction                                                 *)
(***************************************************************************)
SearchIds == {1}

NoSearch == [pc |-> "idle"]

\* ---- the catalog tools: module state after the module is loaded
DefaultRepo == "github/awesome-copilot"
RequestIds == {1, 2}
NoRequest == [pc |-> "idle"]
NoFile == [file |-> "missing"]

\* the catalog tools are left alone with the defaults of lines 22-25
ServerUnused ==
    /\ cachedItems = None
    /\ cachedAt = None
    /\ CONTENT_REPO = DefaultRepo
    /\ MAX_ITEMS = Max(1, 15)
    /\ CACHE_TTL_HOURS = Max(1, 24)
    /\ dateNow = 1
    /\ storage = NoFile
    /\ req = [r \in RequestIds |-> NoRequest]

\* ... and no result has been built
ToolsUnused ==
    /\ scored = None
    /\ ServerUnused

\* the router is constructed and left alone
RouterUnused ==
    /\ userPreferences = defaultPreferences
    /\ updates = 0
    /\ snapshot = None
    /\ prefsOp = [op |-> "new"]
    /\ inv = [p \in SearchIds |-> NoSearch]

InitTelemetry ==
    /\ events = <<>>
    /\ enabled = TRUE
    /\ clock = 0
    /\ recorded = <<>>
    /\ lastOp = "new"
    /\ returned = None

\* new IntentRouter(), no call made yet
InitRouterFields ==
    /\ routerDefaults = defaultPreferences
    /\ answers = <<>>

InitNoCall ==
    /\ query = None
    /\ callPrefs = None
    /\ intent = None
    /\ plan = None
    /\ InitRouterFields

\* ---- the classifier alone: the inputs of one call are drawn here
InitIntent ==
    /\ ToolsUnused
    /\ query \in Queries
    /\ callPrefs \in PreferenceArgs
    /\ intent = None
    /\ plan = None
    /\ InitRouterFields
    /\ InitTelemetry
    /\ RouterUnused

AnalyzeIntent ==
    /\ query # None
    /\ intent = None
    /\ intent' = analyzeIntent(query, callPrefs)
    /\ UNCHANGED <<query, callPrefs, plan, routerDefaults, answers,
                   telemetryVars, routerVars, scored, serverVars>>

CreateSearchStrategy ==
    /\ query # None
    /\ plan = None
    /\ plan' = createSearchStrategy(query, callPrefs)
    /\ UNCHANGED <<query, callPrefs, intent, routerDefaults, answers,
                   telemetryVars, routerVars, scored, serverVars>>

NextIntent == AnalyzeIntent \/ CreateSearchStrategy

SpecIntent == InitIntent /\ [][NextIntent]_vars

\* ---- one router called again and again
MaxCalls == 3

\* a few queries and two preferences arguments that classify differently
RepeatQueries ==
    {q \in [hits : {[c \in Categories |->
                       IF c = "best_practices" THEN n ELSE 0] : n \in 0..1},
            tech : 0..1, phrases : {0}, words : 0..1] : WellFormed(q)}

RepeatPreferences ==
    {EmptyPreferences,
     [mcpFirst |-> FALSE, mcpOnlyForBestPractices |-> TRUE,
      fallbackToWeb |-> FALSE, minConfidenceThreshold |-> 800]}

InitRepeat ==
    /\ InitNoCall
    /\ ToolsUnused
    /\ InitTelemetry
    /\ RouterUnused

Called(method, q, preferences, i) ==
    [method |-> method, query |-> q, preferences |-> preferences, intent |-> i]

AnalyzeIntentAgain ==
    /\ Len(answers) < MaxCalls
    /\ \E q \in RepeatQueries, preferences \in RepeatPreferences :
          /\ query' = q
          /\ callPrefs' = preferences
          /\ intent' = analyzeIntentOn(routerDefaults, q, preferences)
          /\ routerDefaults' = FieldAfterCall(routerDefaults, preferences)
          /\ answers' = Append(answers,
                               Called("analyzeIntent", q, preferences, intent'))
    /\ UNCHANGED <<plan, telemetryVars, routerVars, scored, serverVars>>

CreateSearchStrategyAgain ==
    /\ Len(answers) < MaxCalls
    /\ \E q \in RepeatQueries, preferences \in RepeatPreferences :
          /\ query' = q
          /\ callPrefs' = preferences
          /\ plan' = createSearchStrategyOn(routerDefaults, q, preferences)
          /\ routerDefaults' = FieldAfterCall(routerDefaults, preferences)
          /\ answers' = Append(answers,
                               Called("createSearchStrategy", q, preferences,
                                      plan'.intent))
    /\ UNCHANGED <<intent, telemetryVars, routerVars, scored, serverVars>>

NextRepeat == AnalyzeIntentAgain \/ CreateSearchStrategyAgain

SpecRepeat == InitRepeat /\ [][NextRepeat]_vars

(***************************************************************************)
(* The telemetry service alone                                              *)
(***************************************************************************)
TelemetryQueries == {[text |-> <<"alpha">>], [text |-> <<"beta">>]}

NotSearching == UNCHANGED <<callVars, routerVars, scored, serverVars>>

\* new TelemetryService(enabled)
InitTelemetryOnly ==
    /\ events = <<>>
    /\ enabled \in BOOLEAN
    /\ clock = 0
    /\ recorded = <<>>
    /\ lastOp = "new"
    /\ returned = None
    /\ InitNoCall
    /\ ToolsUnused
    /\ RouterUnused

TrackMCPConsultation(limit, qs) ==
    /\ clock < limit
    /\ \E q \in qs :
          Telemetry(<<MCPConsultationEvent(q, 0)>>, "trackMCPConsultation")
    /\ returned' = None
    /\ UNCHANGED enabled
    /\ NotSearching

TrackMCPResourcesFound(limit, qs) ==
    /\ clock < limit
    /\ \E q \in qs :
          Telemetry(<<MCPResourcesFoundEvent(q, 1, 0)>>, "trackMCPResourcesFound")
    /\ returned' = None
    /\ UNCHANGED enabled
    /\ NotSearching

TrackMCPResourcesNotFound(limit, qs) ==
    /\ clock < limit
    /\ \E q \in qs :
          Telemetry(<<MCPResourcesNotFoundEvent(q, 0)>>,
                    "trackMCPResourcesNotFound")
    /\ returned' = None
    /\ UNCHANGED enabled
    /\ NotSearching

TrackFallbackToWeb(limit, qs) ==
    /\ clock < limit
    /\ \E q \in qs, n \in 0..1 :
          Telemetry(<<FallbackToWebEvent(q, n, 0)>>, "trackFallbackToWeb")
    /\ returned' = None
    /\ UNCHANGED enabled
    /\ NotSearching

TrackSearchCompleted(limit, qs) ==
    /\ clock < limit
    /\ \E q \in qs, n \in 0..1, sources \in {<<"mcp">>, <<"web">>} :
          Telemetry(<<SearchCompletedEvent(q, n, 0, sources)>>,
                    "trackSearchCompleted")
    /\ returned' = None
    /\ UNCHANGED enabled
    /\ NotSearching

SetEnabled ==
    /\ \E b \in BOOLEAN : enabled' = setEnabled(enabled, b)
    /\ lastOp' = "setEnabled"
    /\ returned' = None
    /\ UNCHANGED <<events, clock, recorded>>
    /\ NotSearching

ClearData ==
    /\ events' = clearData(events)
    /\ recorded' = <<>>
    /\ lastOp' = "clearData"
    /\ returned' = None
    /\ UNCHANGED <<enabled, clock>>
    /\ NotSearching

GetStats ==
    /\ returned' = getStats(events)
    /\ lastOp' = "getStats"
    /\ UNCHANGED <<events, enabled, clock, recorded>>
    /\ NotSearching

\* getRecentEvents(limit), and getRecentEvents() with its default of 50
GetRecentEvents(limits) ==
    /\ \E limit \in limits :
          returned' = [limit |-> limit, events |-> getRecentEvents(events, limit)]
    /\ lastOp' = "getRecentEvents"
    /\ UNCHANGED <<events, enabled, clock, recorded>>
    /\ NotSearching

NextTelemetry ==
    \/ TrackMCPConsultation(MaxTracked, TelemetryQueries)
    \/ TrackMCPResourcesFound(MaxTracked, TelemetryQueries)
    \/ TrackMCPResourcesNotFound(MaxTracked, TelemetryQueries)
    \/ TrackFallbackToWeb(MaxTracked, TelemetryQueries)
    \/ TrackSearchCompleted(MaxTracked, TelemetryQueries)
    \/ SetEnabled
    \/ ClearData

SpecTelemetry == InitTelemetryOnly /\ [][NextTelemetry]_vars

\* ---- the same service driven past its capacity by one kind of call
ClearFullLog == Len(events) = MAX_EVENTS /\ ClearData

NextEviction ==
    \/ TrackMCPConsultation(MAX_EVENTS + ExtraCalls, {[text |-> <<"alpha">>]})
    \/ SetEnabled
    \/ ClearFullLog

SpecEviction == InitTelemetryOnly /\ [][NextEviction]_vars

\* ---- the statistics of a service that already holds a log
MaxGapQueries == 6      \* distinct queries that were looked up in vain
MaxConsulted == 12      \* consultations, and successful lookups, of one query
MaxLateCalls == 2       \* trackers are called while the clock is below this

QueryNames == <<"python", "kotlin", "rust", "swift", "flask", "docker",
                "terraform", "scala">>

NamedQuery(k) == [text |-> <<QueryNames[k]>>]

Repeat(event, n) == [i \in 1..n |-> event]

\* what was logged for one query: failed lookups, then successful ones
Lookups ==
    {[failed |-> 1, found |-> 0], [failed |-> 2, found |-> 0],
     [failed |-> 3, found |-> 0], [failed |-> 2, found |-> 1]}

RECURSIVE LookupEvents(_, _)
LookupEvents(lookups, k) ==
    IF k > Len(lookups) THEN <<>>
    ELSE Repeat(MCPResourcesNotFoundEvent(NamedQuery(k), 0), lookups[k].failed)
         \o Repeat(MCPResourcesFoundEvent(NamedQuery(k), 1, 0), lookups[k].found)
         \o LookupEvents(lookups, k + 1)

\* the events of the searches of one more query
ConsultEvents(c) ==
    LET q == [text |-> <<"java">>]
    IN  Repeat(MCPConsultationEvent(q, 0), c.consulted)
        \o Repeat(MCPResourcesFoundEvent(q, 1, IF c.slow THEN 2001 ELSE 0),
                  c.found)
        \o Repeat(FallbackToWebEvent(q, 0, 0), c.fallbacks)

NoConsult == [consulted |-> 0, found |-> 0, fallbacks |-> 0, slow |-> FALSE]

LoggedHistories ==
    {[lookups |-> l, consult |-> NoConsult] :
        l \in UNION {[1..n -> Lookups] : n \in 0..MaxGapQueries}}
    \cup
    {[lookups |-> l, consult |-> c] :
        l \in {<<>>, <<[failed |-> 2, found |-> 0]>>},
        c \in [consulted : 0..MaxConsulted, found : 0..MaxConsulted,
               fallbacks : 0..1, slow : BOOLEAN]}

\* the log an enabled service holds after these calls
LogOf(h) ==
    TrackEach(<<>>, TRUE, 0, LookupEvents(h.lookups, 1) \o ConsultEvents(h.consult))

InitStats ==
    /\ \E h \in LoggedHistories :
          /\ events = LogOf(h)
          /\ recorded = events
          /\ clock = Len(events)
    /\ enabled = TRUE
    /\ lastOp = "new"
    /\ returned = None
    /\ InitNoCall
    /\ ToolsUnused
    /\ RouterUnused

\* a lookup is recorded into a log that is (or has been) emptied
TrackIntoEmptyLog ==
    /\ Len(events) = 0
    /\ TrackMCPResourcesNotFound(MaxLateCalls, {NamedQuery(1)})

NextStats ==
    \/ GetStats
    \/ GetRecentEvents({0, 2, 50})
    \/ ClearData
    \/ SetEnabled
    \/ TrackIntoEmptyLog

SpecStats == InitStats /\ [][NextStats]_vars

(***************************************************************************)
(* SearchRouter                                                             *)
(*                                                                         *)
(* A search() invocation is suspended only at its backend calls             *)
(* (mcpServer.search, mcpServer.preview, webSearch.search); the code        *)
(* between two suspensions runs as one step.  A text handed to stringMatch  *)
(* is the set of query words it contains.  Relevance is kept in 1/6000,     *)
(* which makes matches / words exact for up to six query words.  Elapsed    *)
(* times are not modelled: every duration is 0.                             *)
(***************************************************************************)
One == 6000

\* the two kinds of strings that reach TelemetryEvent.query
RawQuery(q) == [raw |-> q]
StepQuery(words) == [text |-> words]

\* queries handed to search()
SearchQueries ==
    {q \in Queries :
        /\ SumHits(q.hits, 1) <= 1
        /\ \A c \in Categories \ {"best_practices", "debugging_help"} :
              q.hits[c] = 0
        /\ q.tech <= 2
        /\ q.phrases = 0
        /\ q.words <= 1}

\* SearchRouter.stringMatch
stringMatch(text, q) ==
    LET queryWords == SelectSeq(q, LAMBDA w : Len(w) > 2)
        matches == Cardinality({i \in 1..Len(queryWords) : queryWords[i] \in text})
    IN  IF Len(queryWords) > 0 THEN (matches * One) \div Len(queryWords) ELSE 0

\* mutant: the sum is returned without the cap of Math.min
calculateMCPRelevance_Uncapped(item, q) ==
    LET titleScore == stringMatch(item.title, q)
        pathScore == stringMatch(item.path, q)
        typeBoost == IF item.type = "instruction" THEN One \div 10
                     ELSE IF item.type = "prompt" THEN One \div 20 ELSE 0
    IN  (titleScore * 6 + pathScore * 4) \div 10 + typeBoost

calculateMCPRelevance(item, q) ==
    LET titleScore == stringMatch(item.title, q)
        pathScore == stringMatch(item.path, q)
        typeBoost == IF item.type = "instruction" THEN One \div 10
                     ELSE IF item.type = "prompt" THEN One \div 20 ELSE 0
    IN  Min((One * 95) \div 100,
            (titleScore * 6 + pathScore * 4) \div 10 + typeBoost)

calculateWebRelevance(item, q) ==
    LET titleScore == stringMatch(item.title, q)
        summaryScore == stringMatch(item.summary, q)
    IN  Min((One * 9) \div 10, (titleScore * 7 + summaryScore * 3) \div 10)

Words(q) == {q[i] : i \in 1..Len(q)}
FirstWord(q) == IF q = <<>> THEN {} ELSE {q[1]}

\* what the catalog backend may return for a step query: n items, of three
\* kinds in rotation
CatalogItem(k, q) ==
    IF k = 0 THEN [title |-> Words(q), path |-> Words(q), type |-> "instruction"]
    ELSE IF k = 1 THEN [title |-> FirstWord(q), path |-> {}, type |-> "prompt"]
    ELSE [title |-> {}, path |-> {}, type |-> "chatmode"]

CatalogReplies(q) ==
    {[i \in 1..n |-> CatalogItem((i + r) % 3, q) @@ [rawUrl |-> i]] :
        n \in 0..MaxCatalogItems, r \in 0..2}

\* what the web backend may return
WebItem(k, q) ==
    IF k = 0 THEN [title |-> {}, summary |-> Words(q)]
    ELSE [title |-> Words(q), summary |-> Words(q)]

WebReplies(q) ==
    {[i \in 1..n |-> WebItem((i + r) % 2, q) @@ [url |-> i]] :
        n \in 0..MaxWebItems, r \in 0..1}

\* ---- sortResults
\* mutant: the comparator does not read mcpFirst
CompareResults_ByScoreOnly(a, b, prefs) ==
    b.relevanceScore - a.relevanceScore

\* mutant: the comparator orders by source and never reads the score
CompareResults_SourceOnly(a, b, prefs) ==
    IF prefs.mcpFirst /\ a.source = "mcp" /\ b.source = "web" THEN 0 - 1
    ELSE IF prefs.mcpFirst /\ a.source = "web" /\ b.source = "mcp" THEN 1
    ELSE 0

\* the comparator handed to Array.prototype.sort
CompareResults(a, b, prefs) ==
    IF prefs.mcpFirst /\ a.source = "mcp" /\ b.source = "web" THEN 0 - 1
    ELSE IF prefs.mcpFirst /\ a.source = "web" /\ b.source = "mcp" THEN 1
    ELSE b.relevanceScore - a.relevanceScore

\* stable insertion of x into the sorted sequence s
RECURSIVE InsertSorted(_, _, _)
InsertSorted(s, x, prefs) ==
    IF s = <<>> THEN <<x>>
    ELSE IF CompareResults(x, Head(s), prefs) < 0 THEN <<x>> \o s
    ELSE <<Head(s)>> \o InsertSorted(Tail(s), x, prefs)

\* results.sort(comparator): Array.prototype.sort is stable
RECURSIVE sortResults(_, _)
sortResults(results, prefs) ==
    IF results = <<>> THEN <<>>
    ELSE InsertSorted(sortResults(SubSeq(results, 1, Len(results) - 1), prefs),
                      results[Len(results)], prefs)

CountSource(results, source) ==
    Cardinality({i \in 1..Len(results) : results[i].source = source})

CountType(results, type) ==
    Cardinality({i \in 1..Len(results) :
                    results[i].source = "mcp" /\ results[i].type = type})

generateRecommendations(results, strategy) ==
    (IF CountType(results, "instruction") > 0
     THEN <<"curated instructions">> ELSE <<>>)
    \o (IF CountType(results, "prompt") > 0
        THEN <<"specialized prompts">> ELSE <<>>)
    \o (IF strategy.intent.intentType = "best_practices"
           /\ CountSource(results, "mcp") = 0
        THEN <<"consider contributing">> ELSE <<>>)
    \o (IF CountSource(results, "mcp") > 0 /\ CountSource(results, "web") > 0
        THEN <<"review both">> ELSE <<>>)

\* ---- search(): the code between suspension points
\* A running invocation s is a record; every operator below returns
\* [s |-> the invocation afterwards, tel |-> the telemetry calls made].

StepOf(s) == s.strategy.steps[s.idx]

\* lines 638-663: sort, recommend, track completion, return
Finish(s, prefs) ==
    LET sortedResults == sortResults(s.results, prefs)
    IN  [s |-> [s EXCEPT !.pc = "done",
                         !.response =
                            [results |-> sortedResults,
                             strategy |-> s.strategy,
                             searchPath |-> s.searchPath,
                             recommendations |->
                                generateRecommendations(sortedResults,
                                                        s.strategy)]],
         tel |-> <<SearchCompletedEvent(RawQuery(s.query), Len(sortedResults),
                                        0, s.sourcesUsed)>>]

\* mutant: the backends of a catalog step and of the step after it are called
\* together (Promise.all over the steps)
BeginStep_FanOut(s) ==
    IF StepOf(s).type = "mcp_search"
    THEN [s EXCEPT !.pc = "mcp", !.sourcesUsed = Append(@, "mcp"),
                   !.calls = @ \o <<"mcp", "web">>, !.stepResults = <<>>]
    ELSE [s EXCEPT !.pc = "web", !.sourcesUsed = Append(@, "web"),
                   !.calls = Append(@, "web"), !.stepResults = <<>>]

\* lines 584-590, 611-612: the loop enters step idx and calls its backend
BeginStep(s) ==
    IF StepOf(s).type = "mcp_search"
    THEN [s EXCEPT !.pc = "mcp", !.sourcesUsed = Append(@, "mcp"),
                   !.calls = Append(@, "mcp"), !.stepResults = <<>>]
    ELSE [s EXCEPT !.pc = "web", !.sourcesUsed = Append(@, "web"),
                   !.calls = Append(@, "web"), !.stepResults = <<>>]

\* the for-loop goes on to the next step, or ends
NextStep(s, prefs) ==
    IF s.idx < Len(s.strategy.steps)
    THEN [s |-> BeginStep([s EXCEPT !.idx = @ + 1]), tel |-> <<>>]
    ELSE Finish(s, prefs)

\* mutant: an exception of a step escapes search()
CatchStepError_Rethrows(s, prefs) ==
    [s |-> [s EXCEPT !.pc = "rejected"], tel |-> <<>>]

\* lines 625-634: the catch of search()
CatchStepError(s, prefs) ==
    NextStep([s EXCEPT !.searchPath =
                Append(@, [action |-> "Failed", source |->
                              IF StepOf(s).type = "mcp_search" THEN "mcp"
                              ELSE "web",
                           query |-> StepOf(s).query, resultCount |-> 0,
                           success |-> FALSE])],
             prefs)

\* mutant: the early exit does not read fallbackToWeb
McpStepControl_NoEarlyExit(step, stepResults, results, prefs) ==
    IF step.priority = "fallback" /\ Len(results) >= 3 THEN "skip"
    ELSE "next"

\* lines 593-609: what follows a catalog step that returned
McpStepControl(step, stepResults, results, prefs) ==
    IF step.priority = "high" /\ Len(stepResults) > 0 /\ ~prefs.fallbackToWeb
    THEN "break"
    ELSE IF step.priority = "fallback" /\ Len(results) >= 3 THEN "skip"
    ELSE "next"

\* lines 699-735 and 591-609: performMCPSearch returns, search() goes on
McpStepReturns(s, prefs) ==
    LET found == Len(s.stepResults) > 0
        tracked == IF found
                   THEN MCPResourcesFoundEvent(StepQuery(StepOf(s).query),
                                               Len(s.stepResults), 0)
                   ELSE MCPResourcesNotFoundEvent(StepQuery(StepOf(s).query), 0)
        s1 == [s EXCEPT !.searchPath =
                  Append(@, [action |-> "MCP search completed",
                             source |-> "mcp", query |-> StepOf(s).query,
                             resultCount |-> Len(s.stepResults),
                             success |-> TRUE]),
                        !.results = @ \o s.stepResults]
        control == McpStepControl(StepOf(s), s.stepResults, s1.results, prefs)
        after == IF control = "break" THEN Finish(s1, prefs)
                 ELSE IF control = "skip"
                 THEN Finish([s1 EXCEPT !.searchPath =
                                Append(@, [action |-> "Skipped web fallback",
                                           source |-> "web",
                                           query |-> StepOf(s).query,
                                           resultCount |-> 0,
                                           success |-> TRUE])], prefs)
                 ELSE NextStep(s1, prefs)
    IN  [s |-> after.s, tel |-> <<tracked>> \o after.tel]

\* lines 675-697: the conversion loop, up to its next preview call
RECURSIVE ConvertItems(_, _)
ConvertItems(s, prefs) ==
    IF s.pending = <<>> THEN McpStepReturns(s, prefs)
    ELSE LET item == Head(s.pending)
             relevanceScore == calculateMCPRelevance(item, StepOf(s).query)
             s1 == [s EXCEPT !.pending = Tail(@),
                             !.stepResults =
                                Append(@, [source |-> "mcp",
                                           url |-> item.rawUrl,
                                           relevanceScore |-> relevanceScore,
                                           type |-> item.type,
                                           content |-> "none"])]
         IN  IF relevanceScore > (One * 7) \div 10
             THEN [s |-> [s1 EXCEPT !.pc = "preview",
                                    !.calls = Append(@, "preview")],
                   tel |-> <<>>]
             ELSE ConvertItems(s1, prefs)

\* lines 736-748: the catch of performMCPSearch, then the catch of search()
McpSearchFails(s, prefs) ==
    LET after == CatchStepError(s, prefs)
    IN  [s |-> after.s,
         tel |-> <<MCPResourcesNotFoundEvent(StepQuery(StepOf(s).query), 0)>>
                 \o after.tel]

\* lines 756-774 and 613-623: performWebSearch returns, search() goes on
WebStepReturns(s, reply, prefs) ==
    LET q == StepOf(s).query
        stepResults == [i \in 1..Len(reply) |->
                          [source |-> "web", url |-> reply[i].url,
                           relevanceScore |-> calculateWebRelevance(reply[i], q),
                           type |-> "web_result", content |-> "summary"]]
        s1 == [s EXCEPT !.searchPath =
                  Append(@, [action |-> "Web search completed",
                             source |-> "web", query |-> q,
                             resultCount |-> Len(stepResults),
                             success |-> TRUE]),
                        !.results = @ \o stepResults]
        after == NextStep(s1, prefs)
    IN  [s |-> after.s,
         tel |-> <<FallbackToWebEvent(RawQuery(s.query),
                                      CountSource(s1.results, "mcp"), 0)>>
                 \o after.tel]

\* mutant: the consultation is tracked only when a catalog step is planned
StartSearch_ConsultsCatalogPlansOnly(q, prefs) ==
    LET strategy == createSearchStrategy(q, prefs)
    IN  [s |-> BeginStep([pc |-> "start", query |-> q, strategy |-> strategy,
                          idx |-> 1, searchPath |-> <<>>, results |-> <<>>,
                          sourcesUsed |-> <<>>, stepResults |-> <<>>,
                          pending |-> <<>>, calls |-> <<>>, outcomes |-> <<>>,
                          previews |-> <<>>, atReturn |-> <<>>,
                          response |-> None]),
         tel |-> IF \E k \in 1..Len(strategy.steps) :
                       strategy.steps[k].type = "mcp_search"
                 THEN <<MCPConsultationEvent(RawQuery(q), 0)>> ELSE <<>>]

\* lines 571-590: search() up to its first backend call
StartSearch(q, prefs) ==
    LET strategy == createSearchStrategy(q, prefs)
    IN  [s |-> BeginStep([pc |-> "start", query |-> q, strategy |-> strategy,
                          idx |-> 1, searchPath |-> <<>>, results |-> <<>>,
                          sourcesUsed |-> <<>>, stepResults |-> <<>>,
                          pending |-> <<>>, calls |-> <<>>, outcomes |-> <<>>,
                          previews |-> <<>>, atReturn |-> <<>>,
                          response |-> None]),
         tel |-> <<MCPConsultationEvent(RawQuery(q), 0)>>]

\* History, not read by the code: how the backend call of each step settled,
Seen(s, ok, n) ==
    [s EXCEPT !.outcomes = Append(@, [type |-> StepOf(s).type, ok |-> ok,
                                      count |-> n])]

\* ... and the preferences in effect when each step was left
StepLeft(before, after) ==
    /\ before.pc # "idle"
    /\ after.pc \in {"done", "rejected"} \/ after.idx # before.idx

Suspended(s) == s.pc \in {"mcp", "preview", "web"}

\* mutant: the accumulated results are a field of the router, shared by the
\* invocations that are running
Step_SharedResults(p, after) ==
    /\ inv' = [r \in DOMAIN inv |->
                 IF r = p
                 THEN IF StepLeft(inv[p], after.s)
                      THEN [after.s EXCEPT !.atReturn = Append(@, userPreferences)]
                      ELSE after.s
                 ELSE IF Suspended(inv[r])
                 THEN [inv[r] EXCEPT !.results = after.s.results]
                 ELSE inv[r]]
    /\ Telemetry(after.tel, "search")
    /\ UNCHANGED <<callVars, enabled, returned, userPreferences, updates,
                   snapshot, prefsOp, scored, serverVars>>

\* invocation p runs from one suspension point to the next (or to its end);
\* its locals are its own, the event log is the shared singleton
Step(p, after) ==
    /\ inv' = [inv EXCEPT ![p] =
                 IF StepLeft(inv[p], after.s)
                 THEN [after.s EXCEPT !.atReturn = Append(@, userPreferences)]
                 ELSE after.s]
    /\ Telemetry(after.tel, "search")
    /\ UNCHANGED <<callVars, enabled, returned, userPreferences, updates,
                   snapshot, prefsOp, scored, serverVars>>

SearchOf(p, queries) ==
    /\ inv[p].pc = "idle"
    /\ \E q \in queries : Step(p, StartSearch(q, userPreferences))

Search(p) == SearchOf(p, SearchQueries)

\* History: the URLs of a reply carry the invocation whose call returned it
CatalogReplyTo(p, reply) ==
    [i \in 1..Len(reply) |-> [reply[i] EXCEPT !.rawUrl = <<p, @>>]]

WebReplyTo(p, reply) ==
    [i \in 1..Len(reply) |-> [reply[i] EXCEPT !.url = <<p, @>>]]

McpSearchSettlesOf(p, maxItems) ==
    /\ inv[p].pc = "mcp"
    /\ \/ \E reply \in CatalogReplies(StepOf(inv[p]).query) :
            /\ Len(reply) <= maxItems
            /\ Step(p, ConvertItems(
                        [Seen(inv[p], TRUE, Min(5, Len(reply)))
                           EXCEPT !.pending =
                              SubSeq(CatalogReplyTo(p, reply), 1,
                                     Min(5, Len(reply)))],
                        userPreferences))
       \/ Step(p, McpSearchFails(Seen(inv[p], FALSE, 0), userPreferences))

McpSearchSettles(p) == McpSearchSettlesOf(p, MaxCatalogItems)

\* History, not read by the code: how the preview call made for the result
\* pushed last settled
PreviewSeen(s, ok) ==
    [s EXCEPT !.previews =
        Append(@, [url |-> s.stepResults[Len(s.stepResults)].url, ok |-> ok])]

\* line 692: the preview is attached to the result pushed last
PreviewReturns(s, prefs) ==
    ConvertItems([s EXCEPT !.stepResults[Len(s.stepResults)].content = "preview"],
                 prefs)

\* mutant: a rejected preview call reaches the catch of performMCPSearch
PreviewFails_Propagates(s, prefs) == McpSearchFails(s, prefs)

\* lines 693-695: the empty catch around the preview call; the loop goes on
PreviewFails(s, prefs) == ConvertItems(s, prefs)

PreviewSettles(p) ==
    /\ inv[p].pc = "preview"
    /\ \/ Step(p, PreviewReturns(PreviewSeen(inv[p], TRUE), userPreferences))
       \/ Step(p, PreviewFails(PreviewSeen(inv[p], FALSE), userPreferences))

WebSearchSettlesOf(p, maxItems) ==
    /\ inv[p].pc = "web"
    /\ \/ \E reply \in WebReplies(StepOf(inv[p]).query) :
            /\ Len(reply) <= maxItems
            /\ Step(p, WebStepReturns(Seen(inv[p], TRUE, Len(reply)),
                                      WebReplyTo(p, reply), userPreferences))
       \/ Step(p, CatchStepError(Seen(inv[p], FALSE, 0), userPreferences))

WebSearchSettles(p) == WebSearchSettlesOf(p, MaxWebItems)

\* updatePreferences(partial)
UpdateArgs ==
    {[fallbackToWeb |-> b] : b \in BOOLEAN} \cup {[mcpFirst |-> b] : b \in BOOLEAN}

\* mutant: the partial is merged over the defaults, not over the live object
updatePreferences_OverDefaults(prefs, partial) ==
    Spread(defaultPreferences, partial)

\* the object assigned to this.userPreferences
updatePreferences(prefs, partial) == Spread(prefs, partial)

\* An object handed to a caller is a record [shared, value]: shared says
\* whether it is the very object this.userPreferences refers to.
\* the object returned by getPreferences: a fresh shallow copy
getPreferences(prefs) == [shared |-> FALSE, value |-> prefs]

\* this.userPreferences is assigned a new object: an object handed out before
\* is no longer the live one
Detached(obj) == IF obj = None THEN obj ELSE [obj EXCEPT !.shared = FALSE]

UpdatePreferencesOf(limit, args) ==
    /\ updates < limit
    /\ \E partial \in args :
          /\ userPreferences' = updatePreferences(userPreferences, partial)
          /\ prefsOp' = [op |-> "updatePreferences", partial |-> partial,
                          before |-> userPreferences]
    /\ snapshot' = Detached(snapshot)
    /\ updates' = updates + 1
    /\ UNCHANGED <<callVars, telemetryVars, inv, scored, serverVars>>

UpdatePreferences == UpdatePreferencesOf(MaxUpdates, UpdateArgs)

GetPreferences ==
    /\ snapshot' = getPreferences(userPreferences)
    /\ prefsOp' = [op |-> "getPreferences", before |-> userPreferences]
    /\ UNCHANGED <<callVars, telemetryVars, userPreferences, updates, inv,
                   scored, serverVars>>

FieldValues(f) ==
    IF f = "minConfidenceThreshold" THEN Thresholds ELSE BOOLEAN

\* the caller assigns to a field of the object it was handed
WriteSnapshot ==
    /\ snapshot # None
    /\ \E f \in PrefFields :
          \E v \in FieldValues(f) \ {snapshot.value[f]} :
             /\ snapshot' = [snapshot EXCEPT !.value[f] = v]
             /\ userPreferences' = IF snapshot.shared
                                    THEN [userPreferences EXCEPT ![f] = v]
                                    ELSE userPreferences
    /\ prefsOp' = [op |-> "write", before |-> userPreferences]
    /\ UNCHANGED <<callVars, telemetryVars, updates, inv, scored, serverVars>>

\* new SearchRouter(mcpServer, webSearch, preferences)
Init ==
    /\ InitNoCall
    /\ ToolsUnused
    /\ InitTelemetry
    /\ \E preferences \in PreferenceArgs :
          userPreferences = Spread(defaultPreferences, preferences)
    /\ updates = 0
    /\ snapshot = None
    /\ prefsOp = [op |-> "new"]
    /\ inv = [p \in SearchIds |-> NoSearch]

Next ==
    \/ \E p \in SearchIds : Search(p)
    \/ \E p \in SearchIds : McpSearchSettles(p)
    \/ \E p \in SearchIds : PreviewSettles(p)
    \/ \E p \in SearchIds : WebSearchSettles(p)
    \/ UpdatePreferences

Spec == Init /\ [][Next]_vars

\* ---- several search() invocations in flight on one router
ConcurrentIds == {1, 2}
MaxConcurrentItems == 1     \* items in one backend reply of this model

\* a catalog-first query with a web fallback, and a web-first query with a
\* supplementary catalog step
ConcurrentQueries ==
    {[hits |-> [c \in Categories |-> IF c = "best_practices" THEN 1 ELSE 0],
      tech |-> 1, phrases |-> 0, words |-> 0],
     [hits |-> [c \in Categories |-> IF c = "debugging_help" THEN 1 ELSE 0],
      tech |-> 0, phrases |-> 0, words |-> 1]}

InitConcurrent ==
    /\ InitNoCall
    /\ ToolsUnused
    /\ InitTelemetry
    /\ userPreferences = defaultPreferences
    /\ updates = 0
    /\ snapshot = None
    /\ prefsOp = [op |-> "new"]
    /\ inv = [p \in ConcurrentIds |-> NoSearch]

NextConcurrent ==
    \/ \E p \in ConcurrentIds : SearchOf(p, ConcurrentQueries)
    \/ \E p \in ConcurrentIds : McpSearchSettlesOf(p, MaxConcurrentItems)
    \/ \E p \in ConcurrentIds : PreviewSettles(p)
    \/ \E p \in ConcurrentIds : WebSearchSettlesOf(p, MaxConcurrentItems)

SpecConcurrent == InitConcurrent /\ [][NextConcurrent]_vars

\* ---- one router whose searches fill the log past its capacity
MaxEarlyEvents == 7     \* the web backend answers while the log is shorter

\* a query routed to the catalog, with the web as fallback
LogQuery ==
    [hits |-> [c \in Categories |-> IF c = "best_practices" THEN 1 ELSE 0],
     tech |-> 1, phrases |-> 0, words |-> 0]

\* new SearchRouter(mcp, web): the default preferences
InitSearchLog ==
    /\ InitNoCall
    /\ ToolsUnused
    /\ InitTelemetry
    /\ userPreferences = defaultPreferences
    /\ updates = 0
    /\ snapshot = None
    /\ prefsOp = [op |-> "new"]
    /\ inv = [p \in SearchIds |-> NoSearch]

SearchIntoLog(p) ==
    /\ clock < MAX_EVENTS + ExtraCalls
    /\ SearchOf(p, {LogQuery})

\* the web backend finds nothing or fails at first, and only fails later
WebSettlesEarlyOrFails(p) ==
    /\ inv[p].pc = "web"
    /\ IF clock < MaxEarlyEvents THEN WebSearchSettlesOf(p, 0)
       ELSE Step(p, CatchStepError(Seen(inv[p], FALSE, 0), userPreferences))

\* lines 658-663: search() has returned; its caller may call again
SearchReturned(p) ==
    /\ inv[p].pc = "done"
    /\ inv' = [inv EXCEPT ![p] = NoSearch]
    /\ UNCHANGED <<callVars, telemetryVars, userPreferences, updates, snapshot,
                   prefsOp, scored, serverVars>>

\* the catalog holds nothing for the query, or cannot be reached
NextSearchLog ==
    \/ \E p \in SearchIds : SearchIntoLog(p)
    \/ \E p \in SearchIds : McpSearchSettlesOf(p, 0)
    \/ \E p \in SearchIds : WebSettlesEarlyOrFails(p)
    \/ \E p \in SearchIds : SearchReturned(p)

SpecSearchLog == InitSearchLog /\ [][NextSearchLog]_vars

\* ---- the preferences of a router that runs no search
MaxPrefUpdates == 2

\* Partial<MCPPreferences>: any subset of the fields
PartialArgs ==
    {flags @@ threshold :
        flags \in UNION {[fields -> BOOLEAN] :
                    fields \in SUBSET (PrefFields \ {"minConfidenceThreshold"})},
        threshold \in {EmptyPreferences}
                      \cup {[minConfidenceThreshold |-> v] : v \in Thresholds}}

NextPreferences ==
    \/ UpdatePreferencesOf(MaxPrefUpdates, PartialArgs)
    \/ GetPreferences
    \/ WriteSnapshot

SpecPreferences == Init /\ [][NextPreferences]_vars

(***************************************************************************)
(* Properties                                                               *)
(***************************************************************************)
TrackerOps == {"trackMCPConsultation", "trackMCPResourcesFound",
               "trackMCPResourcesNotFound", "trackFallbackToWeb",
               "trackSearchCompleted"}

\* C5: the log holds at most 1000 events and is exactly the most recent
\* min(n, 1000) of the n events recorded since the last clearData, in
\* recording order.
C5_LogIsMostRecent ==
    LET n == Len(recorded)
        k == Min(n, MAX_EVENTS)
    IN  /\ Len(events) <= MAX_EVENTS
        /\ events = SubSeq(recorded, n - k + 1, n)

\* C5 witness: more than 1000 events were recorded, so the oldest were evicted
C5_Witness ==
    /\ Len(recorded) > MAX_EVENTS + 1
    /\ Len(events) = MAX_EVENTS
    /\ events[1].timestamp > 1

\* C6: while telemetry is disabled every tracker leaves the log unchanged;
\* setEnabled never touches the log; an enabled tracker appends its event.
C6_DisabledIsNoOp ==
    [][/\ (lastOp' \in TrackerOps /\ ~enabled) => events' = events
       /\ lastOp' = "setEnabled" => events' = events
       /\ (lastOp' \in TrackerOps /\ enabled /\ Len(events) < MAX_EVENTS)
            => /\ Len(events') = Len(events) + 1
               /\ SubSeq(events', 1, Len(events)) = events]_vars

\* C6 witness: a tracker was called on a disabled service that holds earlier
\* events, after the service had been enabled, disabled and used
C6_Witness ==
    /\ ~enabled
    /\ lastOp \in TrackerOps
    /\ Len(events) > 0
    /\ events = recorded

\* the preferences in effect for a call
CallPreferences == Spread(defaultPreferences, callPrefs)

\* C7: the planned steps are catalog(high) [+ web(fallback) iff fallbackToWeb]
\* when shouldUseMCP, else web(high) [+ catalog(supplementary) iff
\* confidence > 0.3]; every step's query is the joined suggested terms.
C7_PlannedSteps ==
    plan # None =>
        LET i == plan.intent
            steps == plan.steps
            Is(k, type, priority) ==
                steps[k].type = type /\ steps[k].priority = priority
        IN  /\ i.shouldUseMCP =>
                /\ Len(steps) = (IF CallPreferences.fallbackToWeb THEN 2 ELSE 1)
                /\ Is(1, "mcp_search", "high")
                /\ Len(steps) = 2 => Is(2, "web_search", "fallback")
            /\ ~i.shouldUseMCP =>
                /\ Len(steps) = (IF i.confidence > 300 THEN 2 ELSE 1)
                /\ Is(1, "web_search", "high")
                /\ Len(steps) = 2 => Is(2, "mcp_search", "supplementary")
            /\ \A k \in 1..Len(steps) :
                  steps[k].query = JoinTerms(i.suggestedSearchTerms)

\* C7 witness: a catalog-first plan without fallback, for a query with terms
C7_Witness ==
    /\ plan # None
    /\ plan.intent.shouldUseMCP
    /\ ~CallPreferences.fallbackToWeb
    /\ Len(plan.steps) = 1
    /\ plan.steps[1].query # <<>>

OnlyHits(q, c, n) ==
    \A d \in Categories : q.hits[d] = (IF d = c THEN n ELSE 0)

\* C8: shouldUseMCP is decided by the first matching rule of (1) mcpFirst and
\* confidence >= threshold, (2) mcpOnlyForBestPractices and best_practices,
\* (3) a technology keyword and confidence > 0.4, (4) otherwise false.  A
\* query matching one debugging pattern only and no keyword has confidence
\* 0.5, shouldUseMCP = false and a plan starting with web_search at high.
C8_RoutingRules ==
    /\ intent # None =>
        LET p == CallPreferences
            rule1 == p.mcpFirst /\ intent.confidence >= p.minConfidenceThreshold
            rule2 == p.mcpOnlyForBestPractices
                     /\ intent.intentType = "best_practices"
            rule3 == query.tech > 0 /\ intent.confidence > 400
        IN  /\ intent.shouldUseMCP = (rule1 \/ rule2 \/ rule3)
            /\ intent.reasoning =
                 (IF rule1 THEN "High confidence"
                  ELSE IF rule2 THEN "Best practices query"
                  ELSE IF rule3 THEN "Technology-specific query"
                  ELSE "Low confidence")
            /\ (OnlyHits(query, "debugging_help", 1) /\ query.tech = 0
                /\ CallPreferences = defaultPreferences)
                 => intent.confidence = 500 /\ ~intent.shouldUseMCP
    /\ plan # None =>
         ((OnlyHits(query, "debugging_help", 1) /\ query.tech = 0
           /\ CallPreferences = defaultPreferences)
            => /\ plan.steps[1].type = "web_search"
               /\ plan.steps[1].priority = "high")

\* C8 witness: the debugging scenario was analysed and planned
C8_Witness ==
    /\ intent # None
    /\ plan # None
    /\ OnlyHits(query, "debugging_help", 1)
    /\ query.tech = 0
    /\ callPrefs = EmptyPreferences
    /\ intent.confidence = 500

\* C9 as claimed: every query matching a best_practices pattern is classified
\* best_practices with confidence >= 0.3 under default preferences, whatever
\* else it matches.
C9_BestPracticesAlwaysWins ==
    (intent # None /\ query.hits["best_practices"] > 0
     /\ CallPreferences = defaultPreferences)
        => intent.intentType = "best_practices" /\ intent.confidence >= 300

\* C9 amended: such a query has confidence >= 0.3, and it is classified
\* best_practices exactly when no other family has a strictly higher
\* candidate confidence min(0.9, 0.3 + 0.2 * matches).
C9_BestPracticesUnlessOutscored ==
    (intent # None /\ query.hits["best_practices"] > 0
     /\ CallPreferences = defaultPreferences)
        => /\ intent.confidence >= 300
           /\ intent.intentType = "best_practices"
                <=> \A c \in Categories :
                       Min(900, 300 + 200 * query.hits[c])
                         <= Min(900, 300 + 200 * query.hits["best_practices"])

\* C9 witness: best_practices wins a tie against a later family
C9_Witness ==
    /\ intent # None
    /\ callPrefs = EmptyPreferences
    /\ query.hits["best_practices"] = 1
    /\ query.hits["architecture_guidance"] = 1
    /\ intent.intentType = "best_practices"

WithHit(q, c) == [q EXCEPT !.hits[c] = @ + 1]
WithTech(q) == [q EXCEPT !.tech = @ + 1]

\* C10: the confidence lies in [0, 0.95]; one more matched pattern of the
\* winning family, or one more matched technology keyword, never lowers it.
C10_ConfidenceBoundedMonotone ==
    intent # None =>
        /\ intent.confidence >= 0
        /\ intent.confidence <= 950
        /\ intent.intentType \in Categories =>
             analyzeIntent(WithHit(query, intent.intentType), callPrefs).confidence
                >= intent.confidence
        /\ analyzeIntent(WithTech(query), callPrefs).confidence
                >= intent.confidence

\* C10 witness: the boost reached the clamp
C10_Witness ==
    /\ intent # None
    /\ query.tech > 0
    /\ intent.confidence = 950
    /\ FloatBoost(CandidateConfidence(query.hits[intent.intentType]),
                  query.tech) > 950

\* ---- search()
Running == {p \in SearchIds : inv[p].pc # "idle"}

FailureEntries(path) == {i \in 1..Len(path) : ~path[i].success}
FailedSteps(s) == {k \in 1..Len(s.outcomes) : ~s.outcomes[k].ok}
BackendCalls(s) == SelectSeq(s.calls, LAMBDA c : c # "preview")

\* C1: search() never rejects because of a backend error: every failed
\* backend call leaves exactly one trace entry with success = false and
\* resultCount = 0, the next planned step is still entered, and the run ends
\* with a response; when every planned step fails the response has no results
\* and the trace is exactly the failure entries.
C1_BackendFailuresContained ==
    \A p \in Running :
        LET s == inv[p]
            steps == s.strategy.steps
        IN  /\ s.pc \in {"mcp", "preview", "web", "done"}
            /\ Cardinality(FailureEntries(s.searchPath))
                 = Cardinality(FailedSteps(s))
            /\ \A i \in FailureEntries(s.searchPath) :
                  s.searchPath[i].resultCount = 0
            /\ \A k \in FailedSteps(s) :
                  /\ k < Len(steps) => Len(BackendCalls(s)) > k
                  /\ k = Len(steps) => s.pc = "done"
            /\ s.pc = "done" =>
                  /\ s.response # None
                  /\ Cardinality(FailedSteps(s)) = Len(steps) =>
                        /\ s.response.results = <<>>
                        /\ Len(s.response.searchPath) = Len(steps)
                        /\ FailureEntries(s.response.searchPath)
                             = 1..Len(steps)

\* C1 witness: a two-step search whose two backend calls both failed
C1_Witness ==
    \E p \in Running :
        /\ inv[p].pc = "done"
        /\ Len(inv[p].strategy.steps) = 2
        /\ FailedSteps(inv[p]) = {1, 2}

CatalogThenFallback(s) ==
    /\ Len(s.strategy.steps) = 2
    /\ s.strategy.steps[1].type = "mcp_search"
    /\ s.strategy.steps[1].priority = "high"
    /\ s.strategy.steps[2].type = "web_search"
    /\ s.strategy.steps[2].priority = "fallback"

HasSkipEntry(path) ==
    \E i \in 1..Len(path) : path[i].action = "Skipped web fallback"

\* C2: with the strategy [catalog at high, web at fallback] and fallbackToWeb
\* true, once the catalog step has returned with at least 3 accumulated
\* results the web backend is not invoked and the trace holds a skip entry.
C2_FallbackSkippedWhenSufficient ==
    \A p \in Running :
        LET s == inv[p]
        IN  (/\ CatalogThenFallback(s)
             /\ Len(s.atReturn) >= 1
             /\ s.atReturn[1].fallbackToWeb
             /\ s.outcomes[1].ok
             /\ s.outcomes[1].count >= 3)
              => /\ \A i \in 1..Len(s.calls) : s.calls[i] # "web"
                 /\ HasSkipEntry(s.searchPath)

\* C3: when the high-priority catalog step returns at least one result while
\* fallbackToWeb is false, the search ends there: the web backend is never
\* invoked and the trace has no web entry.
C3_NoWebAfterCatalogHit ==
    \A p \in Running :
        LET s == inv[p]
        IN  (/\ s.strategy.steps[1].type = "mcp_search"
             /\ s.strategy.steps[1].priority = "high"
             /\ Len(s.atReturn) >= 1
             /\ ~s.atReturn[1].fallbackToWeb
             /\ s.outcomes[1].ok
             /\ s.outcomes[1].count >= 1)
              => /\ s.pc = "done"
                 /\ \A i \in 1..Len(s.calls) : s.calls[i] # "web"
                 /\ \A i \in 1..Len(s.response.searchPath) :
                       s.response.searchPath[i].source # "web"

\* C3 witness: a web fallback was planned, fallbackToWeb was switched off
\* while the catalog call was pending, and the catalog returned results
C3_Witness ==
    \E p \in Running :
        /\ inv[p].pc = "done"
        /\ CatalogThenFallback(inv[p])
        /\ ~inv[p].atReturn[1].fallbackToWeb
        /\ inv[p].outcomes[1].ok
        /\ inv[p].outcomes[1].count >= 1
        /\ Len(inv[p].response.results) >= 1

\* C4: in every result list returned while mcpFirst is true no web result
\* precedes a catalog result.
C4_CatalogBeforeWeb ==
    \A p \in Running :
        LET s == inv[p]
        IN  (s.pc = "done" /\ s.atReturn[Len(s.atReturn)].mcpFirst) =>
               \A i, j \in 1..Len(s.response.results) :
                  (i < j) => ~(/\ s.response.results[i].source = "web"
                               /\ s.response.results[j].source = "mcp")

\* C4 witness: the web step ran first and returned a result that scores
\* higher than a catalog result of the same search
C4_Witness ==
    \E p \in Running :
        LET s == inv[p]
        IN  /\ s.pc = "done"
            /\ s.atReturn[Len(s.atReturn)].mcpFirst
            /\ s.strategy.steps[1].type = "web_search"
            /\ \E i, j \in 1..Len(s.response.results) :
                  /\ s.response.results[i].source = "mcp"
                  /\ s.response.results[j].source = "web"
                  /\ s.response.results[j].relevanceScore
                       > s.response.results[i].relevanceScore

C12_MergeAndSnapshot ==
    [][/\ prefsOp'.op = "updatePreferences" =>
            \A f \in PrefFields :
               userPreferences'[f] = IF f \in DOMAIN prefsOp'.partial
                                     THEN prefsOp'.partial[f]
                                     ELSE userPreferences[f]
       /\ (prefsOp.op = "updatePreferences" /\ prefsOp'.op = "getPreferences") =>
            \A f \in PrefFields :
               snapshot'.value[f] = IF f \in DOMAIN prefsOp.partial
                                    THEN prefsOp.partial[f]
                                    ELSE prefsOp.before[f]
       /\ (prefsOp.op = "updatePreferences" /\ prefsOp'.op = "updatePreferences"
           /\ prefsOp'.partial = prefsOp.partial) =>
            userPreferences' = userPreferences
       /\ prefsOp'.op \in {"getPreferences", "write"} =>
            userPreferences' = userPreferences]_vars

\* C12 witness: preferences were updated twice, read, and the object read was
\* then written by its caller
C12_Witness ==
    /\ updates = 2
    /\ prefsOp.op = "write"
    /\ snapshot # None
    /\ snapshot.value # userPreferences
    /\ userPreferences # defaultPreferences

BackendOf(step) == IF step.type = "mcp_search" THEN "mcp" ELSE "web"

\* C13: the steps of one search() run one after the other in strategy order:
\* the k-th backend call made is that of the k-th planned step, at most one
\* backend call is unsettled at any time, and a backend call is unsettled
\* exactly while the invocation is suspended on it, so the call of a step is
\* made only after the calls of all earlier steps have settled; catalog and
\* web are never pending together.
C13_StepsRunSequentially ==
    \A p \in Running :
        LET s == inv[p]
            made == BackendCalls(s)
            unsettled == Len(made) - Len(s.outcomes)
        IN  /\ unsettled \in {0, 1}
            /\ unsettled = 1 <=> s.pc \in {"mcp", "web"}
            /\ Len(made) <= Len(s.strategy.steps)
            /\ \A k \in 1..Len(made) :
                  made[k] = BackendOf(s.strategy.steps[k])
            /\ \A k \in 1..Len(s.outcomes) :
                  s.outcomes[k].type = s.strategy.steps[k].type
            /\ s.pc = "mcp" => StepOf(s).type = "mcp_search"
            /\ s.pc = "web" => StepOf(s).type = "web_search"

\* C13 witness: the web backend is pending as second step, after a catalog
\* call and the preview calls of that step have settled
C13_Witness ==
    \E p \in Running :
        /\ inv[p].pc = "web"
        /\ inv[p].idx = 2
        /\ inv[p].calls[1] = "mcp"
        /\ \E i \in 1..Len(inv[p].calls) : inv[p].calls[i] = "preview"
        /\ Len(inv[p].outcomes) = 1

RunningAll == {p \in DOMAIN inv : inv[p].pc # "idle"}

\* the steps whose backend call has settled and whose trace entry is written
\* (the entry of a catalog step is written after its preview calls)
Traced(s) ==
    IF s.pc = "preview" THEN SubSeq(s.outcomes, 1, Len(s.outcomes) - 1)
    ELSE s.outcomes

RECURSIVE SumCounts(_)
SumCounts(outcomes) ==
    IF outcomes = <<>> THEN 0
    ELSE Head(outcomes).count + SumCounts(Tail(outcomes))

\* C14: under every interleaving of the invocations at their backend calls,
\* each invocation keeps the strategy planned for its own query, its trace
\* has exactly one entry per own settled backend call (that step's query,
\* source, outcome and count), and its accumulated and returned results are
\* exactly the items its own backend calls returned.
C14_InvocationsIsolated ==
    \A p \in RunningAll :
        LET s == inv[p]
            steps == s.strategy.steps
            traced == Traced(s)
        IN  /\ s.strategy = createSearchStrategy(s.query, userPreferences)
            /\ \A i \in 1..Len(s.results) : s.results[i].url[1] = p
            /\ \A i \in 1..Len(s.stepResults) : s.stepResults[i].url[1] = p
            /\ Len(s.results) = SumCounts(traced)
            /\ Len(s.searchPath) = Len(traced)
            /\ \A k \in 1..Len(traced) :
                  /\ s.searchPath[k].query = steps[k].query
                  /\ s.searchPath[k].source = BackendOf(steps[k])
                  /\ s.searchPath[k].success = traced[k].ok
                  /\ s.searchPath[k].resultCount = traced[k].count
            /\ s.pc = "done" =>
                  /\ s.response.searchPath = s.searchPath
                  /\ s.response.strategy = s.strategy
                  /\ Len(s.response.results) = Len(s.results)
                  /\ \A i \in 1..Len(s.results) :
                        \E j \in 1..Len(s.response.results) :
                           s.response.results[j] = s.results[i]

\* C14 witness: two searches of the same query were both started before
\* either backend answered, and both returned catalog and web results
C14_Witness ==
    /\ RunningAll = {1, 2}
    /\ inv[1].pc = "done" /\ inv[2].pc = "done"
    /\ inv[1].query = inv[2].query
    /\ events[1].eventType = "mcp_consulted"
    /\ events[2].eventType = "mcp_consulted"
    /\ \A p \in {1, 2} :
          /\ CountSource(inv[p].response.results, "mcp") > 0
          /\ CountSource(inv[p].response.results, "web") > 0

StepEventTypes(step, ok) ==
    IF step.type = "mcp_search"
    THEN (IF ok THEN {"mcp_resources_found", "mcp_resources_not_found"}
          ELSE {"mcp_resources_not_found"})
    ELSE {"fallback_to_web"}

\* C15: a search reports its start, every step whose backend call has settled
\* (with a result or with an error) and its end to the telemetry service, one
\* event each and in that order; the event of a failed catalog call is a
\* not-found event and that of a failed web call a fallback event.
C15_EveryStepReported ==
    \A p \in Running :
        LET s == inv[p]
            traced == Traced(s)
        IN  /\ Len(events) = 1 + Len(traced) + (IF s.pc = "done" THEN 1 ELSE 0)
            /\ events[1].eventType = "mcp_consulted"
            /\ \A k \in 1..Len(traced) :
                  /\ 1 + k <= Len(events)
                  /\ events[1 + k].eventType
                       \in StepEventTypes(s.strategy.steps[k], traced[k].ok)
            /\ s.pc = "done" =>
                  events[Len(events)].eventType = "search_completed"

NumberOf(type) ==
    Cardinality({i \in 1..Len(events) : events[i].eventType = type})

\* C16: getStats counts the events of the current log by type:
\* totalConsultations the mcp_consulted events, successfulMCPConsultations
\* the mcp_resources_found events, unsuccessfulMCPConsultations the
\* mcp_resources_not_found events, fallbackToWebCount the fallback_to_web
\* events; on an empty log every count is 0 and every list is empty; and the
\* call changes neither the log nor the enabled flag.
C16_StatsCountTheLog ==
    [][lastOp' = "getStats" =>
          /\ events' = events
          /\ enabled' = enabled
          /\ returned'.totalConsultations = NumberOf("mcp_consulted")
          /\ returned'.successfulMCPConsultations
               = NumberOf("mcp_resources_found")
          /\ returned'.unsuccessfulMCPConsultations
               = NumberOf("mcp_resources_not_found")
          /\ returned'.fallbackToWebCount = NumberOf("fallback_to_web")
          /\ events = <<>> =>
                /\ returned'.averageResponseTime = 0
                /\ returned'.topQueries = <<>>
                /\ returned'.resourceGaps = <<>>
                /\ returned'.improvementSuggestions = <<>>]_vars

\* C16 witness: statistics of a log that holds events of all four kinds, in
\* different numbers
C16_Witness ==
    /\ lastOp = "getStats"
    /\ returned.totalConsultations > returned.successfulMCPConsultations
    /\ returned.successfulMCPConsultations
         > returned.unsuccessfulMCPConsultations
    /\ returned.unsuccessfulMCPConsultations > returned.fallbackToWebCount
    /\ returned.fallbackToWebCount > 0

LoggedQueries == {events[i].query : i \in 1..Len(events)}
Attempts(q) == Cardinality({i \in 1..Len(events) : events[i].query = q})
Successes(q) ==
    Cardinality({i \in 1..Len(events) : events[i].query = q /\ events[i].success})
Qualifying == {q \in LoggedQueries : Attempts(q) >= 2 /\ Successes(q) = 0}

\* the part of C17 that is not about the order
GapsQualify(gaps) ==
    /\ Len(gaps) = Min(5, Cardinality(Qualifying))
    /\ \A i \in 1..Len(gaps) :
          /\ gaps[i].query \in Qualifying
          /\ gaps[i].attempts = Attempts(gaps[i].query)
    /\ \A i, j \in 1..Len(gaps) : gaps[i].query = gaps[j].query => i = j

\* C17: resourceGaps holds only queries with at least 2 logged events and no
\* successful one, at most 5 of them, and they are the qualifying queries
\* with the highest attempt counts: no qualifying query that was left out
\* has more attempts than one that is listed.
C17_GapsAreTopFive ==
    lastOp = "getStats" =>
        LET gaps == returned.resourceGaps
            listed == {gaps[i].query : i \in 1..Len(gaps)}
        IN  /\ GapsQualify(gaps)
            /\ \A q \in Qualifying \ listed :
                  \A i \in 1..Len(gaps) : gaps[i].attempts >= Attempts(q)

Suggested(stats, rule) ==
    {i \in 1..Len(stats.improvementSuggestions) :
        stats.improvementSuggestions[i].rule = rule}

Has(stats, rule) == Suggested(stats, rule) # {}

\* C18 as claimed: for every log with at least one consultation, a success
\* ratio successful / total below 0.3 puts the broader-coverage suggestion in
\* the list and a ratio above 0.8 the high-relevance note.
C18_RatioRulesAlways ==
    (lastOp = "getStats" /\ NumberOf("mcp_consulted") >= 1) =>
        LET total == NumberOf("mcp_consulted")
            successful == NumberOf("mcp_resources_found")
        IN  /\ 10 * successful < 3 * total => Has(returned, "low success rate")
            /\ 10 * successful > 8 * total => Has(returned, "high success rate")

\* C18 amended: every rule contributes at most one suggestion and is decided
\* by its own condition alone; the broader-coverage suggestion is present
\* exactly when there are more than 10 consultations and the success ratio
\* is below 0.3, the high-relevance note exactly when there are more than 10
\* consultations and the ratio is above 0.8.
C18_RatioRulesAboveTen ==
    lastOp = "getStats" =>
        LET total == NumberOf("mcp_consulted")
            successful == NumberOf("mcp_resources_found")
            techQueries == SelectSeq(returned.topQueries,
                                     LAMBDA q : MentionsCoverageWord(q.query))
        IN  /\ Has(returned, "low success rate")
                 <=> (total > 10 /\ 10 * successful < 3 * total)
            /\ Has(returned, "high success rate")
                 <=> (total > 10 /\ 10 * successful > 8 * total)
            /\ Has(returned, "high fallback rate")
                 <=> NumberOf("fallback_to_web") > successful
            /\ Has(returned, "most requested missing content")
                 <=> Len(returned.resourceGaps) > 0
            /\ Has(returned, "slow response")
                 <=> returned.averageResponseTime > 1000
            /\ Has(returned, "low success rate for query")
                 <=> (Len(techQueries) > 0 /\ techQueries[1].successRate < 50)
            /\ \A i \in 1..Len(returned.improvementSuggestions) :
                  Cardinality(Suggested(returned,
                                        returned.improvementSuggestions[i].rule))
                    = 1

\* C18 witness: eleven consultations or more with a low success ratio, in a
\* log for which two of the other rules fire as well
C18_Witness ==
    /\ lastOp = "getStats"
    /\ NumberOf("mcp_consulted") > 10
    /\ Has(returned, "low success rate")
    /\ Has(returned, "high fallback rate")
    /\ Has(returned, "most requested missing content")
    /\ ~Has(returned, "slow response")

\* C19: getRecentEvents(limit), for every limit >= 0, returns exactly the
\* last min(limit, length of the log) events, in recording order, and leaves
\* the log unchanged.
C19_RecentAreLastLimit ==
    lastOp = "getRecentEvents" =>
        LET n == Len(events)
            k == Min(returned.limit, n)
        IN  /\ returned.events = SubSeq(events, n - k + 1, n)
            /\ events = recorded

AllZero(stats) ==
    /\ stats.totalConsultations = 0
    /\ stats.successfulMCPConsultations = 0
    /\ stats.unsuccessfulMCPConsultations = 0
    /\ stats.fallbackToWebCount = 0
    /\ stats.averageResponseTime = 0
    /\ stats.topQueries = <<>>
    /\ stats.resourceGaps = <<>>
    /\ stats.improvementSuggestions = <<>>

\* C20: clearData empties the log and keeps the enabled flag; setEnabled
\* keeps the log; and while no event has been recorded since the last
\* clearData, getStats returns the all-zero statistics.
C20_ClearAndEnableFrames ==
    [][/\ lastOp' = "clearData" => (events' = <<>> /\ enabled' = enabled)
       /\ lastOp' = "setEnabled" => events' = events
       /\ (lastOp' = "getStats" /\ recorded = <<>>) => AllZero(returned')
       /\ (lastOp' = "getStats" /\ recorded # <<>>) => ~AllZero(returned')]_vars

\* C20 witness: a service that held events was disabled and cleared, and its
\* statistics were read
C20_Witness ==
    /\ lastOp = "getStats"
    /\ clock > 2
    /\ recorded = <<>>
    /\ ~enabled
    /\ AllZero(returned)

\* ---- content previews of a catalog step
PreviewThreshold == (One * 7) \div 10

\* the catalog results an invocation holds: those of the step being converted,
\* or those already added to the accumulated results
CatalogResults(s) ==
    IF s.pc = "preview" THEN s.stepResults
    ELSE SelectSeq(s.results, LAMBDA r : r.source = "mcp")

PreviewsOf(s, url) == {k \in 1..Len(s.previews) : s.previews[k].url = url}

\* C21: in a catalog step a preview is requested only for a result whose
\* relevance exceeds 0.7; a preview call that fails leaves its result in the
\* result set with its metadata and without content, the other results keep
\* what their own preview call gave them, and the step still ends with a
\* trace entry of success = true counting every result, with no failure
\* entry for the catalog.
C21_PreviewFailureSwallowed ==
    \A p \in Running :
        LET s == inv[p]
            cat == CatalogResults(s)
        IN  /\ \A k \in 1..Len(s.previews) :
                  \E i \in 1..Len(cat) : cat[i].url = s.previews[k].url
            /\ \A i \in 1..Len(cat) :
                  LET asked == PreviewsOf(s, cat[i].url)
                      waiting == s.pc = "preview" /\ i = Len(cat)
                  IN  /\ cat[i].source = "mcp"
                      /\ cat[i].type \in {"instruction", "prompt", "chatmode"}
                      /\ cat[i].relevanceScore <= PreviewThreshold =>
                            asked = {} /\ cat[i].content = "none"
                      /\ waiting =>
                            /\ cat[i].relevanceScore > PreviewThreshold
                            /\ asked = {} /\ cat[i].content = "none"
                      /\ (cat[i].relevanceScore > PreviewThreshold /\ ~waiting) =>
                            /\ Cardinality(asked) = 1
                            /\ \A k \in asked :
                                  cat[i].content =
                                     IF s.previews[k].ok THEN "preview" ELSE "none"
            /\ (s.previews # <<>> /\ s.pc # "preview") =>
                  /\ \E j \in 1..Len(s.searchPath) :
                        /\ s.searchPath[j].action = "MCP search completed"
                        /\ s.searchPath[j].success
                        /\ s.searchPath[j].resultCount = Len(cat)
                  /\ \A j \in FailureEntries(s.searchPath) :
                        s.searchPath[j].source # "mcp"

\* C21 witness: a finished search whose catalog step asked for two previews,
\* one of which failed and one of which was attached
C21_Witness ==
    \E p \in Running :
        /\ inv[p].pc = "done"
        /\ \E k, l \in 1..Len(inv[p].previews) :
              ~inv[p].previews[k].ok /\ inv[p].previews[l].ok
        /\ \E i \in 1..Len(inv[p].response.results) :
              /\ inv[p].response.results[i].source = "mcp"
              /\ inv[p].response.results[i].relevanceScore > PreviewThreshold
              /\ inv[p].response.results[i].content = "none"

(***************************************************************************)
(* The relevance of one result                                              *)
(*                                                                         *)
(* One backend item and the query of its step are drawn at the start; the   *)
(* actions build the SearchResult as performMCPSearch and performWebSearch  *)
(* do.  The query has short words as well as long ones.                     *)
(***************************************************************************)
MaxQueryWords == 3

\* a word of two characters and two longer ones, none contained in another
ScoreWords == {"go", "rust", "kotlin"}
ItemTypes == {"instruction", "prompt", "chatmode", "collection"}

ScoreQueries == UNION {[1..n -> ScoreWords] : n \in 0..MaxQueryWords}

CatalogItems ==
    [title : SUBSET ScoreWords, path : SUBSET ScoreWords, type : ItemTypes,
     rawUrl : {1}]

WebItems == [title : SUBSET ScoreWords, summary : SUBSET ScoreWords, url : {1}]

InitRelevance ==
    /\ InitNoCall
    /\ InitTelemetry
    /\ RouterUnused
    /\ ServerUnused
    /\ \E q \in ScoreQueries :
          \/ \E item \in CatalogItems :
                scored = [source |-> "mcp", query |-> q, item |-> item,
                          result |-> None]
          \/ \E item \in WebItems :
                scored = [source |-> "web", query |-> q, item |-> item,
                          result |-> None]

\* lines 676-684: the SearchResult pushed for a catalog item
ConvertCatalogItem ==
    /\ scored.source = "mcp"
    /\ scored.result = None
    /\ scored' = [scored EXCEPT !.result =
                     [source |-> "mcp", url |-> scored.item.rawUrl,
                      relevanceScore |->
                         calculateMCPRelevance(scored.item, scored.query),
                      type |-> scored.item.type, content |-> "none"]]
    /\ UNCHANGED <<callVars, telemetryVars, routerVars, serverVars>>

\* lines 756-763: the SearchResult built for a web item
ConvertWebItem ==
    /\ scored.source = "web"
    /\ scored.result = None
    /\ scored' = [scored EXCEPT !.result =
                     [source |-> "web", url |-> scored.item.url,
                      relevanceScore |->
                         calculateWebRelevance(scored.item, scored.query),
                      type |-> "web_result", content |-> "summary"]]
    /\ UNCHANGED <<callVars, telemetryVars, routerVars, serverVars>>

NextRelevance == ConvertCatalogItem \/ ConvertWebItem

SpecRelevance == InitRelevance /\ [][NextRelevance]_vars

\* positions of the query words longer than 2 characters
LongWordsOf(q) == {i \in 1..Len(q) : Len(q[i]) > 2}

\* ten times the match value of a text, as a number of 1/6000
MatchTimesTen(text, q) ==
    IF LongWordsOf(q) = {} THEN 0
    ELSE (10 * One * Cardinality({i \in LongWordsOf(q) : q[i] \in text}))
            \div Cardinality(LongWordsOf(q))

TypeBoostTimesTen(type) ==
    IF type = "instruction" THEN One
    ELSE IF type = "prompt" THEN One \div 2 ELSE 0

\* C22: the relevance of a result lies in [0, 1]; for a catalog item it is
\* 0.6 titleMatch + 0.4 pathMatch + typeBoost capped at 0.95, for a web item
\* 0.7 titleMatch + 0.3 summaryMatch capped at 0.9, a match value being the
\* fraction of the query words longer than 2 characters found in the text
\* (0 when the query has none).
C22_RelevanceFormula ==
    (scored # None /\ scored.result # None) =>
        LET r == scored.result.relevanceScore
            q == scored.query
            item == scored.item
        IN  /\ 0 <= r /\ r <= One
            /\ scored.source = "mcp" =>
                  100 * r = Min(95 * One,
                                6 * MatchTimesTen(item.title, q)
                                  + 4 * MatchTimesTen(item.path, q)
                                  + 10 * TypeBoostTimesTen(item.type))
            /\ scored.source = "web" =>
                  100 * r = Min(90 * One,
                                7 * MatchTimesTen(item.title, q)
                                  + 3 * MatchTimesTen(item.summary, q))

\* C22 witness: a catalog result whose uncapped sum exceeds 1 (every long
\* word of a query that also has a short word is in the title and the path
\* of an instruction) and whose relevance is the cap
C22_Witness ==
    /\ scored # None
    /\ scored.result # None
    /\ scored.source = "mcp"
    /\ scored.item.type = "instruction"
    /\ Cardinality(LongWordsOf(scored.query)) = 2
    /\ Len(scored.query) = 3
    /\ MatchTimesTen(scored.item.title, scored.query) = 10 * One
    /\ MatchTimesTen(scored.item.path, scored.query) = 10 * One
    /\ 100 * scored.result.relevanceScore = 95 * One

(***************************************************************************)
(* The catalog tools                                                        *)
(*                                                                         *)
(* Times are whole hours.  A value that may be null is None or a record:    *)
(* Items(s) is the array s, At(t) the time t.  A tool request is suspended  *)
(* only at its awaits (the read of the extension's storage and the GitHub   *)
(* tree fetch); the code between two awaits runs as one step.  A text is    *)
(* known by the keywords it contains.                                       *)
(***************************************************************************)
MaxHours == 4           \* the clock stops at this hour
MaxTtl == 2             \* largest CACHE_TTL_HOURS
MaxLimit == 2           \* largest MAX_ITEMS

StartHour == 2
OtherRepo == "octo/prompts"
Repos == {DefaultRepo, OtherRepo}

Items(s) == [array |-> s]
At(t) == [time |-> t]

\* ---- the repository tree
\* keywords a query is made of, and the keywords each text contains
Keywords == {"java", "react", "instruction"}

ContainedIn(text) ==
    IF text \in {"java", "javascript"} THEN {"java"}
    ELSE IF text = "react" THEN {"react"}
    ELSE IF text \in {"instruction", "instructions", ".instructions.md"}
    THEN {"instruction"}
    ELSE {}

\* GitTreeEntry; a path is its directory, its file name and the extension
TreeEntry(dir, name, ext, type) ==
    [path |-> [dir |-> dir, name |-> name, ext |-> ext], type |-> type]

\* what GitHub returns for the tree of a repository
TreeOf(repo) ==
    IF repo = DefaultRepo
    THEN <<TreeEntry("instructions", "java", ".instructions.md", "blob"),
           TreeEntry("docs", "readme", ".md", "blob"),
           TreeEntry("prompts", "javascript", ".prompt.md", "blob"),
           TreeEntry("prompts", "", "", "tree"),
           TreeEntry("chatmodes", "react", ".chatmode.md", "blob"),
           TreeEntry("instructions", "react", ".prompt.md", "blob")>>
    ELSE <<TreeEntry("prompts", "java", ".prompt.md", "blob")>>

hasCorrectExtension(ext, type) ==
    IF type = "instruction" THEN ext = ".instructions.md"
    ELSE IF type = "prompt" THEN ext = ".prompt.md"
    ELSE IF type = "chatmode" THEN ext = ".chatmode.md"
    ELSE FALSE

\* lines 139-147 (and 199-203): the kind of a tree entry, "none" if it is no
\* catalog file
CandidateType(entry) ==
    IF entry.type # "blob" THEN "none"
    ELSE IF entry.path.dir = "instructions"
            /\ hasCorrectExtension(entry.path.ext, "instruction")
    THEN "instruction"
    ELSE IF entry.path.dir = "prompts"
            /\ hasCorrectExtension(entry.path.ext, "prompt")
    THEN "prompt"
    ELSE IF entry.path.dir = "chatmodes"
            /\ hasCorrectExtension(entry.path.ext, "chatmode")
    THEN "chatmode"
    ELSE "none"

\* lines 151-163: the CatalogItem of a candidate
ItemOf(entry, repo) ==
    [type |-> CandidateType(entry), title |-> entry.path.name,
     path |-> entry.path, rawUrl |-> [repo |-> repo, path |-> entry.path]]

ItemsOf(entries, repo) == [i \in 1..Len(entries) |-> ItemOf(entries[i], repo)]

\* lines 137-165: the index built from a fetched tree
IndexOfTree(tree, repo, maxItems) ==
    LET candidates == SelectSeq(tree, LAMBDA e : CandidateType(e) # "none")
        limited == SubSeq(candidates, 1, Min(Len(candidates), Max(1, maxItems)))
    IN  ItemsOf(limited, repo)

\* ---- keywordSearch
Searchable(item) ==
    ContainedIn(item.title) \cup ContainedIn(item.type)
    \cup ContainedIn(item.path.dir) \cup ContainedIn(item.path.name)
    \cup ContainedIn(item.path.ext)

EveryKeyword(keywords, text) ==
    \A i \in 1..Len(keywords) : keywords[i] \in text

\* mutant: an item is kept when it contains some keyword
keywordSearch_AnyKeyword(items, q) ==
    IF Len(q) = 0 THEN <<>>
    ELSE SelectSeq(items, LAMBDA item :
                      \E i \in 1..Len(q) : q[i] \in Searchable(item))

keywordSearch(items, q) ==
    IF Len(q) = 0 THEN <<>>
    ELSE SelectSeq(items, LAMBDA item : EveryKeyword(q, Searchable(item)))

\* ---- expandIndexByKeywords, lines 195-225
Haystack(entry) ==
    ContainedIn(CandidateType(entry)) \cup ContainedIn(entry.path.dir)
    \cup ContainedIn(entry.path.name) \cup ContainedIn(entry.path.ext)

\* new Map over [...existing, ...newItems] keyed by path: a path keeps the
\* place of its first occurrence and the value of its last
RECURSIVE MergeByPath(_, _)
MergeByPath(merged, more) ==
    IF more = <<>> THEN merged
    ELSE LET item == Head(more)
             at == {i \in 1..Len(merged) : merged[i].path = item.path}
         IN  MergeByPath(IF at = {} THEN Append(merged, item)
                         ELSE [i \in 1..Len(merged) |->
                                 IF i \in at THEN item ELSE merged[i]],
                         Tail(more))

ExpandedIndex(existing, tree, q, repo, maxItems) ==
    LET candidates == SelectSeq(tree, LAMBDA e :
                          /\ CandidateType(e) # "none"
                          /\ EveryKeyword(q, Haystack(e)))
        limited == SubSeq(candidates, 1,
                          Min(Len(candidates), Max(1, Min(maxItems, 50))))
    IN  MergeByPath(<<>>, existing \o ItemsOf(limited, repo))

\* ---- ExtensionCacheService
\* new Date(updatedAt).getTime(): not a number for a text that is no date
DateOf(updatedAt) ==
    IF updatedAt.date = "valid" THEN [nan |-> FALSE, hours |-> updatedAt.time]
    ELSE [nan |-> TRUE]

\* (now - cacheTime) / 3600000
HoursBetween(nowHours, cacheTime) ==
    IF cacheTime.nan THEN [nan |-> TRUE]
    ELSE [nan |-> FALSE, hours |-> nowHours - cacheTime.hours]

\* a >= b on numbers: false when a is not a number
AtLeast(a, b) == ~a.nan /\ a.hours >= b

Returns(v) == [threw |-> FALSE, value |-> v]
Throws == [threw |-> TRUE]

\* lines 60-90: the body of the outer try (None is null).  fs.access fails
\* for a missing file and its own catch returns null; readFile, JSON.parse
\* and the property read of the JSON value null throw
ReadStorage(store, nowHours, cacheTtlHours) ==
    IF store.file = "missing" THEN Returns(None)
    ELSE IF store.file \in {"unreadable", "malformed", "null"} THEN Throws
    ELSE IF store.items = None \/ store.updatedAt = None THEN Returns(None)
    ELSE IF AtLeast(HoursBetween(nowHours, DateOf(store.updatedAt)),
                    cacheTtlHours)
    THEN Returns(None)
    ELSE Returns(store.items)

\* getCachedCatalog(cacheTtlHours): lines 92-95 catch whatever was thrown
getCachedCatalog(store, nowHours, cacheTtlHours) ==
    LET read == ReadStorage(store, nowHours, cacheTtlHours)
    IN  IF read.threw THEN Returns(None) ELSE read

\* the item the extension has stored
ExtensionItems ==
    <<ItemOf(TreeEntry("chatmodes", "react", ".chatmode.md", "blob"),
             DefaultRepo)>>

\* storage.json: missing, unreadable, no JSON, the JSON text null, or an
\* object whose two keys are absent (or hold a falsy value) or present
StorageStates ==
    {NoFile, [file |-> "unreadable"], [file |-> "malformed"], [file |-> "null"]}
    \cup {[file |-> "object", items |-> i, updatedAt |-> u] :
            i \in {None, Items(<<>>), Items(ExtensionItems)},
            u \in {None, [date |-> "invalid"]}
                  \cup {[date |-> "valid", time |-> h] : h \in 0..(StartHour + 1)}}

\* ---- isCacheValid
isCacheValid(at, nowHours, ttl) ==
    IF at = None THEN FALSE ELSE nowHours - at.time < ttl


\* ---- what "valid" means for the two caches (RECREATION_TASK.md, Cache
\* Validation): recorded with each request, not read by the code
MemoryFresh ==
    /\ cachedItems # None
    /\ cachedAt # None
    /\ dateNow - cachedAt.time < CACHE_TTL_HOURS

ExtensionFresh(store, nowHours, ttl) ==
    /\ store.file = "object"
    /\ store.items # None
    /\ store.updatedAt # None
    /\ store.updatedAt.date = "valid"
    /\ nowHours - store.updatedAt.time < ttl

\* ---- the tools.  A request is a record: its position, its locals and
\* (history) the caches it saw, the calls it made and the cache writes it did
NewRequest(tool, forceRefresh, q) ==
    [pc |-> "start", tool |-> tool, forceRefresh |-> forceRefresh, query |-> q,
     ttl |-> 0, existing |-> <<>>, base |-> None, result |-> None,
     memory |-> IF forceRefresh THEN "unchecked"
                ELSE IF MemoryFresh THEN "fresh" ELSE "stale",
     extension |-> "unread", held |-> cachedItems, heldAt |-> cachedAt,
     listing |-> "", calls |-> <<>>, writes |-> <<>>]

\* every operator below returns the request and the cache afterwards
Out(rec, items, at) == [rec |-> rec, cachedItems |-> items, cachedAt |-> at]

\* lines 275-277: the search tool, once buildIndex(false) has returned base
SearchGoesOn(rec, base, items, at, ttl) ==
    LET results == keywordSearch(base.array, rec.query)
        r1 == [rec EXCEPT !.base = base]
        existing == IF items = None THEN <<>> ELSE items.array
    IN  IF Len(results) # 0
        THEN Out([r1 EXCEPT !.pc = "done", !.result = Items(results)], items, at)
        ELSE IF Len(existing) = 0
        THEN Out([r1 EXCEPT !.pc = "expandExtension", !.existing = existing,
                            !.ttl = ttl,
                            !.calls = Append(@, "expandExtension")], items, at)
        ELSE Out([r1 EXCEPT !.pc = "expandGithub", !.existing = existing,
                            !.calls = Append(@, "expandGithub")], items, at)

\* buildIndex returns index to the tool that called it
IndexReturned(rec, index, items, at, ttl) ==
    IF rec.tool = "search" THEN SearchGoesOn(rec, index, items, at, ttl)
    ELSE Out([rec EXCEPT !.pc = "done", !.result = index], items, at)

\* mutant: the extension cache is read before the in-memory cache is looked at
buildIndexBegins_ExtensionFirst(rec, items, at, nowHours, ttl) ==
    IF ~rec.forceRefresh
    THEN Out([rec EXCEPT !.pc = "extension", !.ttl = ttl,
                         !.calls = Append(@, "extension")], items, at)
    ELSE Out([rec EXCEPT !.pc = "github", !.calls = Append(@, "github")],
             items, at)

\* lines 121-126, 135-136: buildIndex up to its first await
buildIndexBegins(rec, items, at, nowHours, ttl) ==
    IF ~rec.forceRefresh /\ items # None /\ isCacheValid(at, nowHours, ttl)
    THEN IndexReturned(rec, items, items, at, ttl)
    ELSE IF ~rec.forceRefresh
    THEN Out([rec EXCEPT !.pc = "extension", !.ttl = ttl,
                         !.calls = Append(@, "extension")], items, at)
    ELSE Out([rec EXCEPT !.pc = "github", !.calls = Append(@, "github")],
             items, at)

\* lines 126-132: getCachedCatalog has settled with ext
buildIndexAfterExtension(rec, ext, items, at, nowHours, ttl) ==
    IF ext # None
    THEN IndexReturned([rec EXCEPT !.writes = Append(@, "index")],
                       ext, ext, At(nowHours), ttl)
    ELSE Out([rec EXCEPT !.pc = "github", !.calls = Append(@, "github")],
             items, at)

\* lines 137-166: fetchFullTree has returned tree
buildIndexAfterFetch(rec, tree, repo, maxItems, nowHours, ttl) ==
    LET index == Items(IndexOfTree(tree, repo, maxItems))
    IN  IndexReturned([rec EXCEPT !.writes = Append(@, "index")],
                      index, index, At(nowHours), ttl)

\* mutant: a failed fetch drops the in-memory cache
FetchFails_DropsCache(rec, items, at) ==
    Out([rec EXCEPT !.pc = "rejected"], None, None)

\* fetchFullTree throws: the rejection reaches the caller of the tool
FetchFails(rec, items, at) == Out([rec EXCEPT !.pc = "rejected"], items, at)

\* lines 183-190: getCachedCatalog has settled inside expandIndexByKeywords
expandAfterExtension(rec, ext, items, at, nowHours) ==
    IF ext # None
    THEN Out([rec EXCEPT !.pc = "expandGithub", !.existing = ext.array,
                         !.calls = Append(@, "expandGithub"),
                         !.writes = Append(@, "expand")], ext, At(nowHours))
    ELSE Out([rec EXCEPT !.pc = "expandGithub",
                         !.calls = Append(@, "expandGithub")], items, at)

\* lines 192-226 and 276: the tree has arrived inside expandIndexByKeywords
expandAfterFetch(rec, tree, repo, maxItems, nowHours) ==
    LET merged == ExpandedIndex(rec.existing, tree, rec.query, repo, maxItems)
    IN  Out([rec EXCEPT !.pc = "done",
                        !.result = Items(keywordSearch(merged, rec.query)),
                        !.writes = Append(@, "expand")],
            Items(merged), At(nowHours))

\* ---- set_repo
Absent == <<>>
Given(v) == <<v>>

\* arguments the input schema lets through
SetRepoArgs ==
    [repo : {Absent, Given(""), Given(OtherRepo)},
     maxItems : {Absent, Given(1), Given(MaxLimit)},
     cacheTtlHours : {Absent, Given(MaxTtl)}]

\* mutant: the cache is cleared only when a repository is named
CacheAfterSetRepo_WhenRepoGiven(args, items, at) ==
    IF args.repo = Absent THEN [items |-> items, at |-> at]
    ELSE [items |-> None, at |-> None]

\* line 350: cachedItems = null; cachedAt = null
CacheAfterSetRepo(args, items, at) == [items |-> None, at |-> None]

\* lines 346-349
ConfigAfterSetRepo(args, repo, maxItems, ttl) ==
    [repo |-> IF args.repo # Absent /\ args.repo[1] # "" THEN args.repo[1]
              ELSE repo,
     maxItems |-> IF args.maxItems # Absent /\ args.maxItems[1] >= 1
                  THEN Max(1, args.maxItems[1]) ELSE maxItems,
     cacheTtlHours |-> IF args.cacheTtlHours # Absent
                          /\ args.cacheTtlHours[1] >= 1
                       THEN Max(1, args.cacheTtlHours[1]) ELSE ttl]

\* ---- actions
Idle == UNCHANGED <<callVars, telemetryVars, routerVars, scored>>

\* lines 62 and 67: fetchFullTree builds its two URLs from CONTENT_REPO as it
\* reads it; rec.listing is the repository named when the call begins
Listing(before, rec, repo) ==
    IF rec.pc \in {"github", "expandGithub"} /\ rec.pc # before.pc
    THEN [rec EXCEPT !.listing = repo] ELSE rec

\* the tree that arrives is the one of a repository configured while
\* fetchFullTree was pending (lines 61-72 hold six awaits): the one named
\* when it was called, or the one set_repo has configured since
ListedRepos(rec) == {rec.listing, CONTENT_REPO}

Apply(r, out) ==
    /\ req' = [req EXCEPT ![r] = Listing(req[r], out.rec, CONTENT_REPO)]
    /\ cachedItems' = out.cachedItems
    /\ cachedAt' = out.cachedAt
    /\ UNCHANGED <<configVars, dateNow, storage>>
    /\ Idle

\* the build_index tool is called
BuildIndex(r) ==
    /\ req[r].pc = "idle"
    /\ \E forceRefresh \in BOOLEAN :
          Apply(r, buildIndexBegins(NewRequest("build_index", forceRefresh, <<>>),
                                    cachedItems, cachedAt, dateNow,
                                    CACHE_TTL_HOURS))

ToolQueries ==
    {<<>>, <<"java">>, <<"react">>, <<"java", "instruction">>,
     <<"react", "instruction">>}

\* the search tool is called
SearchToolOf(r, queries) ==
    /\ req[r].pc = "idle"
    /\ \E q \in queries :
          Apply(r, buildIndexBegins(NewRequest("search", FALSE, q),
                                    cachedItems, cachedAt, dateNow,
                                    CACHE_TTL_HOURS))

SearchTool(r) == SearchToolOf(r, ToolQueries)

ExtensionSettles(r) ==
    /\ req[r].pc = "extension"
    /\ Apply(r, buildIndexAfterExtension(
                   [req[r] EXCEPT !.extension =
                       IF ExtensionFresh(storage, dateNow, req[r].ttl)
                       THEN "fresh" ELSE "stale"],
                   getCachedCatalog(storage, dateNow, req[r].ttl).value,
                   cachedItems, cachedAt, dateNow, CACHE_TTL_HOURS))

GithubSettles(r) ==
    /\ req[r].pc = "github"
    /\ \/ \E listed \in ListedRepos(req[r]) :
             Apply(r, buildIndexAfterFetch(req[r], TreeOf(listed),
                                           CONTENT_REPO, MAX_ITEMS, dateNow,
                                           CACHE_TTL_HOURS))
       \/ Apply(r, FetchFails(req[r], cachedItems, cachedAt))

ExpandExtensionSettles(r) ==
    /\ req[r].pc = "expandExtension"
    /\ Apply(r, expandAfterExtension(
                   req[r], getCachedCatalog(storage, dateNow, req[r].ttl).value,
                   cachedItems, cachedAt, dateNow))

ExpandGithubSettles(r) ==
    /\ req[r].pc = "expandGithub"
    /\ \/ \E listed \in ListedRepos(req[r]) :
             Apply(r, expandAfterFetch(req[r], TreeOf(listed), CONTENT_REPO,
                                       MAX_ITEMS, dateNow))
       \/ Apply(r, FetchFails(req[r], cachedItems, cachedAt))

\* the set_repo tool: its handler has no await
SetRepo(r) ==
    /\ req[r].pc = "idle"
    /\ \E args \in SetRepoArgs :
          LET config == ConfigAfterSetRepo(args, CONTENT_REPO, MAX_ITEMS,
                                           CACHE_TTL_HOURS)
              cache == CacheAfterSetRepo(args, cachedItems, cachedAt)
          IN  /\ CONTENT_REPO' = config.repo
              /\ MAX_ITEMS' = config.maxItems
              /\ CACHE_TTL_HOURS' = config.cacheTtlHours
              /\ cachedItems' = cache.items
              /\ cachedAt' = cache.at
              /\ req' = [req EXCEPT ![r] =
                           [pc |-> "done", tool |-> "set_repo", args |-> args,
                            held |-> cachedItems, result |-> config]]
    /\ UNCHANGED <<dateNow, storage>>
    /\ Idle

\* the response (or the error) of a request is delivered
Reply(r) ==
    /\ req[r].pc \in {"done", "rejected"}
    /\ req' = [req EXCEPT ![r] = NoRequest]
    /\ UNCHANGED <<cacheVars, configVars, dateNow, storage>>
    /\ Idle

\* an hour passes
TickTo(lastHour) ==
    /\ dateNow < lastHour
    /\ dateNow' = dateNow + 1
    /\ UNCHANGED <<cacheVars, configVars, storage, req>>
    /\ Idle

Tick == TickTo(MaxHours)

\* the module is loaded (lines 22-25 and 108-110) with one of the given
\* storage files on disk and the two limits set in the environment
InitServerOf(stores, maxItems, ttls) ==
    /\ InitNoCall
    /\ InitTelemetry
    /\ RouterUnused
    /\ scored = None
    /\ cachedItems = None
    /\ cachedAt = None
    /\ CONTENT_REPO = DefaultRepo
    /\ MAX_ITEMS \in {Max(1, n) : n \in maxItems}
    /\ CACHE_TTL_HOURS \in {Max(1, n) : n \in ttls}
    /\ dateNow = StartHour
    /\ storage \in stores
    /\ req = [r \in RequestIds |-> NoRequest]

\* ---- build_index alone
InitIndex == InitServerOf(StorageStates, 0..MaxLimit, 0..MaxTtl)

NextIndex ==
    \/ \E r \in RequestIds : BuildIndex(r)
    \/ \E r \in RequestIds : ExtensionSettles(r)
    \/ \E r \in RequestIds : GithubSettles(r)
    \/ \E r \in RequestIds : Reply(r)
    \/ Tick

SpecIndex == InitIndex /\ [][NextIndex]_vars

\* ---- the extension cache service called on its own
\* getCachedCatalog(ttl) is called; a promise that rejects leaves the request
\* rejected
GetCachedCatalog(r) ==
    /\ req[r].pc = "idle"
    /\ \E ttl \in 1..MaxTtl :
          LET read == getCachedCatalog(storage, dateNow, ttl)
          IN  req' = [req EXCEPT ![r] =
                        [pc |-> IF read.threw THEN "rejected" ELSE "done",
                         tool |-> "getCachedCatalog", ttl |-> ttl,
                         extension |-> IF ExtensionFresh(storage, dateNow, ttl)
                                       THEN "fresh" ELSE "stale",
                         result |-> IF read.threw THEN None ELSE read.value]]
    /\ UNCHANGED <<cacheVars, configVars, dateNow, storage>>
    /\ Idle

NextExtensionCache ==
    \/ \E r \in RequestIds : GetCachedCatalog(r)
    \/ \E r \in RequestIds : Reply(r)
    \/ Tick

SpecExtensionCache == InitIndex /\ [][NextExtensionCache]_vars

\* ---- set_repo between index builds
\* no storage file, or one the extension has just written
FewStores ==
    {NoFile,
     [file |-> "object", items |-> Items(ExtensionItems),
      updatedAt |-> [date |-> "valid", time |-> StartHour]]}

InitSetRepo == InitServerOf(FewStores, {15}, {24})

NextSetRepo ==
    \/ \E r \in RequestIds : BuildIndex(r)
    \/ \E r \in RequestIds : ExtensionSettles(r)
    \/ \E r \in RequestIds : GithubSettles(r)
    \/ \E r \in RequestIds : SetRepo(r)
    \/ \E r \in RequestIds : Reply(r)

SpecSetRepo == InitSetRepo /\ [][NextSetRepo]_vars

\* ---- the search tool
NextSearchTool ==
    \/ \E r \in RequestIds : SearchTool(r)
    \/ \E r \in RequestIds : ExtensionSettles(r)
    \/ \E r \in RequestIds : GithubSettles(r)
    \/ \E r \in RequestIds : ExpandExtensionSettles(r)
    \/ \E r \in RequestIds : ExpandGithubSettles(r)
    \/ \E r \in RequestIds : Reply(r)
    \/ TickTo(StartHour + 1)

\* ... or one that holds an empty catalog, which getCachedCatalog returns
SearchStores ==
    FewStores
    \cup {[file |-> "object", items |-> Items(<<>>),
           updatedAt |-> [date |-> "valid", time |-> StartHour]]}

InitSearchTool == InitServerOf(SearchStores, 0..MaxLimit, {MaxTtl})

SpecSearchTool == InitSearchTool /\ [][NextSearchTool]_vars

\* ---- build_index
Requests(tool) == {r \in RequestIds : req[r].pc # "idle" /\ req[r].tool = tool}

Builds(forceRefresh) ==
    {r \in Requests("build_index") : req[r].forceRefresh = forceRefresh}

Made(rec, call) == \E i \in 1..Len(rec.calls) : rec.calls[i] = call

\* C23: buildIndex(false) returns the in-memory cache, reading neither the
\* extension cache nor GitHub, when that cache is present and younger than
\* the TTL; otherwise it reads the extension cache first and returns it,
\* without calling GitHub, when it is valid; and it calls GitHub only after
\* it has found both caches invalid.
C23_SourcesInOrder ==
    \A r \in Builds(FALSE) :
        LET rec == req[r]
        IN  /\ rec.memory = "fresh" =>
                  /\ rec.pc = "done"
                  /\ rec.calls = <<>>
                  /\ rec.result = rec.held
            /\ rec.memory = "stale" =>
                  /\ rec.calls # <<>>
                  /\ rec.calls[1] = "extension"
            /\ rec.extension = "fresh" =>
                  /\ rec.pc = "done"
                  /\ rec.calls = <<"extension">>
                  /\ rec.result = storage.items
            /\ Made(rec, "github") =>
                  /\ rec.memory = "stale"
                  /\ rec.extension = "stale"
                  /\ rec.calls = <<"extension", "github">>

\* C23 witness: an index was answered from the extension cache after the
\* in-memory cache had expired, and another from the in-memory cache
C23_Witness ==
    \E r, o \in Builds(FALSE) :
        /\ req[r].pc = "done"
        /\ req[r].held # None
        /\ req[r].memory = "stale"
        /\ req[r].extension = "fresh"
        /\ req[o].pc = "done"
        /\ req[o].memory = "fresh"

\* C24: buildIndex(true) looks at no cache and fetches the tree from GitHub;
\* when the fetch succeeds the in-memory cache becomes the items built from
\* the fetched tree and its timestamp the current time; when it fails the
\* request is rejected and the in-memory cache and its timestamp stay as
\* they were.
C24_ForceRefreshBypasses ==
    [][\A r \in RequestIds :
          /\ (/\ req[r].pc = "idle"
              /\ req'[r].pc # "idle"
              /\ req'[r].tool = "build_index"
              /\ req'[r].forceRefresh) =>
                 /\ req'[r].pc = "github"
                 /\ req'[r].calls = <<"github">>
                 /\ cachedItems' = cachedItems /\ cachedAt' = cachedAt
          /\ (/\ req[r].pc = "github"
              /\ req[r].tool = "build_index"
              /\ req[r].forceRefresh) =>
                 /\ req'[r].pc = "done" =>
                       /\ req'[r].calls = <<"github">>
                       /\ req'[r].result.array # <<>>
                       /\ \A i \in 1..Len(req'[r].result.array) :
                             /\ req'[r].result.array[i].rawUrl.repo = CONTENT_REPO
                             /\ \E j \in 1..Len(TreeOf(CONTENT_REPO)) :
                                   TreeOf(CONTENT_REPO)[j].path
                                      = req'[r].result.array[i].path
                       /\ cachedItems' = req'[r].result
                       /\ cachedAt' = At(dateNow)
                 /\ req'[r].pc = "rejected" =>
                       /\ cachedItems' = cachedItems
                       /\ cachedAt' = cachedAt]_vars

\* C24 witness: a forced refresh was started over a fresh in-memory cache and
\* a valid extension cache, its fetch failed, and the cache it found is
\* still in place
C24_Witness ==
    \E r \in Builds(TRUE) :
        /\ req[r].pc = "rejected"
        /\ req[r].held # None
        /\ cachedItems = req[r].held
        /\ cachedAt = req[r].heldAt
        /\ MemoryFresh
        /\ ExtensionFresh(storage, dateNow, CACHE_TTL_HOURS)

\* ---- set_repo
NoArguments == [repo |-> Absent, maxItems |-> Absent, cacheTtlHours |-> Absent]

C26_ExtensionCacheValidated ==
    \A r \in Requests("getCachedCatalog") :
        /\ req[r].pc = "done"
        /\ req[r].result # None =>
              /\ req[r].extension = "fresh"
              /\ req[r].result = storage.items
        /\ req[r].extension = "stale" => req[r].result = None

\* ---- the search tool
\* places of the items of an index that contain every keyword of a query of
\* at least one keyword
Matches(index, q) ==
    {i \in 1..Len(index) :
        /\ Len(q) > 0
        /\ \A k \in 1..Len(q) : q[k] \in Searchable(index[i])}

RECURSIVE Pick(_, _, _)
Pick(index, places, i) ==
    IF i > Len(index) THEN <<>>
    ELSE (IF i \in places THEN <<index[i]>> ELSE <<>>)
         \o Pick(index, places, i + 1)

Expanded(rec) == Made(rec, "expandExtension") \/ Made(rec, "expandGithub")

\* C27: the search tool starts the expansion exactly when the keyword search
\* over the index buildIndex(false) returned finds nothing; when that index
\* has an item containing every keyword, the answer is the matching items of
\* that index, no tree is fetched for the expansion and the expansion writes
\* neither the cache nor its timestamp.
C27_ExpandOnlyWhenNothingFound ==
    \A r \in Requests("search") :
        LET rec == req[r]
        IN  rec.base # None =>
               LET found == Matches(rec.base.array, rec.query)
               IN  /\ found # {} =>
                         /\ rec.pc = "done"
                         /\ rec.result = Items(Pick(rec.base.array, found, 1))
                         /\ ~Expanded(rec)
                         /\ \A i \in 1..Len(rec.writes) : rec.writes[i] # "expand"
                   /\ found = {} => Expanded(rec)

\* C27 witness: a search was answered from an index cached an hour before,
\* whose cache and timestamp are still those it found; another search found
\* nothing in its index and has expanded it
C27_Witness ==
    \E r, o \in Requests("search") :
        /\ req[r].pc = "done"
        /\ req[r].base # None
        /\ Matches(req[r].base.array, req[r].query) # {}
        /\ req[r].held # None
        /\ cachedItems = req[r].held
        /\ cachedAt = req[r].heldAt
        /\ cachedAt.time < dateNow
        /\ req[o].pc = "expandGithub"
        /\ req[o].query # <<>>

\* ---- the winning family
\* the candidate confidence of family c for the checked query
CandidateOf(c) == Min(900, 300 + 200 * query.hits[c])

MatchedFamilies == {i \in 1..Len(IntentOrder) : query.hits[IntentOrder[i]] > 0}

\* "Spring Boot best practices for microservices": one pattern each of
\* best_practices (/best\s+practices?/), architecture_guidance
\* (/microservices?/) and framework_setup (/spring\s+boot/); the keywords
\* "spring", "spring boot" and "microservices"
SpringBootScenario ==
    /\ \A c \in Categories :
          query.hits[c] = (IF c \in {"best_practices", "architecture_guidance",
                                     "framework_setup"} THEN 1 ELSE 0)
    /\ query.tech = 3
    /\ callPrefs = EmptyPreferences

\* C28: the classified family is one with the highest candidate confidence
\* min(0.9, 0.3 + 0.2 * matches) among the families with a match, and the one
\* enumerated first among those of equal confidence; with no match at all the
\* result is general_question with confidence 0.  The query "Spring Boot best
\* practices for microservices" under default preferences is classified
\* best_practices with shouldUseMCP = true.
C28_HighestConfidenceFirstWins ==
    intent # None =>
        /\ MatchedFamilies = {} =>
              intent.intentType = "general_question" /\ intent.confidence = 0
        /\ MatchedFamilies # {} =>
              \E i \in MatchedFamilies :
                 /\ intent.intentType = IntentOrder[i]
                 /\ \A j \in MatchedFamilies :
                       /\ CandidateOf(IntentOrder[j]) <= CandidateOf(IntentOrder[i])
                       /\ j < i => CandidateOf(IntentOrder[j])
                                     < CandidateOf(IntentOrder[i])
        /\ SpringBootScenario =>
              intent.intentType = "best_practices" /\ intent.shouldUseMCP

\* C28 witness: the scenario query was classified; three families tie at 0.5
C28_Witness ==
    /\ intent # None
    /\ SpringBootScenario
    /\ intent.intentType = "best_practices"
    /\ intent.confidence = 800
    /\ intent.shouldUseMCP

\* C28 second case: a later family with more matches beats an earlier one
C28_LaterFamilyWins ==
    /\ intent # None
    /\ query.hits["best_practices"] = 1
    /\ query.hits["debugging_help"] = 2
    /\ intent.intentType = "debugging_help"

\* ---- the technology boost
\* the highest candidate confidence of the checked query, 0 without a match
BestCandidate ==
    IF MatchedFamilies = {} THEN 0
    ELSE CHOOSE c \in {CandidateOf(IntentOrder[i]) : i \in MatchedFamilies} :
            \A j \in MatchedFamilies : CandidateOf(IntentOrder[j]) <= c

\* a and b differ by less than the rounding of one double addition
\* (0.7 + 0.1 is 0.7999999999999999)
Rounds(a, b) == a - b \in {0 - 1, 0, 1}

Boosted == query.tech > 0 /\ BestCandidate > 300

\* C29: the returned confidence is the best candidate confidence plus, exactly
\* when a technology keyword matched and that confidence exceeds 0.3, one
\* addition of 0.1 per matched keyword clamped to 0.95; it is the best
\* candidate confidence itself otherwise, so without a matched pattern it is
\* 0 however many keywords matched.
C29_BoostOnceGuardedClamped ==
    intent # None =>
        /\ Boosted =>
              /\ Rounds(intent.confidence,
                        Min(950, BestCandidate + 100 * query.tech))
              /\ intent.confidence <= 950
        /\ ~Boosted => intent.confidence = BestCandidate
        /\ MatchedFamilies = {} => intent.confidence = 0

\* C29 witness: two keywords lifted a single match from 0.5 to 0.7
C29_Witness ==
    /\ intent # None
    /\ OnlyHits(query, "how_to_build", 1)
    /\ query.tech = 2
    /\ intent.confidence = 700

\* C29 second case: keywords without any matched pattern leave 0
C29_KeywordsAloneLeaveZero ==
    /\ intent # None
    /\ MatchedFamilies = {}
    /\ query.tech = MaxTech
    /\ intent.confidence = 0

\* C29 third case: the sum was clamped
C29_Clamped ==
    /\ intent # None
    /\ BestCandidate + 100 * query.tech > 950
    /\ intent.confidence = 950

\* ---- the order of the returned results
Returned == {p \in Running : inv[p].pc = "done"}

\* userPreferences as sortResults read them
PrefsAtSort(s) == s.atReturn[Len(s.atReturn)]

Descending(results, positions) ==
    \A i, j \in positions :
        i < j => results[i].relevanceScore >= results[j].relevanceScore

FromSource(results, source) ==
    {i \in 1..Len(results) : results[i].source = source}

\* C30: in every returned result list the results of one source are in
\* descending order of relevanceScore, and when mcpFirst is false as the list
\* is sorted the whole list is in descending order of relevanceScore.
C30_DescendingRelevance ==
    \A p \in Returned :
        LET s == inv[p]
            results == s.response.results
        IN  /\ Descending(results, FromSource(results, "mcp"))
            /\ Descending(results, FromSource(results, "web"))
            /\ ~PrefsAtSort(s).mcpFirst =>
                  Descending(results, 1..Len(results))

\* C30 witness: with mcpFirst false the sort moved a web result in front of a
\* catalog result that scores lower, and reordered the collected list
C30_Witness ==
    \E p \in Returned :
        LET s == inv[p]
            results == s.response.results
        IN  /\ ~PrefsAtSort(s).mcpFirst
            /\ results # s.results
            /\ \E i, j \in 1..Len(results) :
                  /\ i < j
                  /\ results[i].source = "web"
                  /\ results[j].source = "mcp"
                  /\ results[i].relevanceScore > results[j].relevanceScore

\* C30 second case: two results of one source arrived in ascending order
C30_SameSourceReordered ==
    \E p \in Returned :
        LET s == inv[p]
        IN  /\ PrefsAtSort(s).mcpFirst
            /\ \E i, j \in 1..Len(s.results) :
                  /\ i < j
                  /\ s.results[i].source = s.results[j].source
                  /\ s.results[i].relevanceScore < s.results[j].relevanceScore

\* ---- debugging queries
\* C31: every query classified debugging_help under default preferences has
\* shouldUseMCP = false, and the first step of its strategy is web_search.
C31_DebuggingPrefersWeb ==
    /\ (intent # None /\ intent.intentType = "debugging_help"
        /\ CallPreferences = defaultPreferences)
          => ~intent.shouldUseMCP
    /\ (plan # None /\ plan.intent.intentType = "debugging_help"
        /\ CallPreferences = defaultPreferences)
          => plan.steps[1].type = "web_search"

\* "Debug memory leak in Python application": /debug/ alone and the
\* keyword "python"
DebugPythonScenario ==
    /\ OnlyHits(query, "debugging_help", 1)
    /\ query.tech = 1
    /\ callPrefs = EmptyPreferences

\* the debugging query with one keyword is routed to the catalog
C31_DebugWithKeywordUsesCatalog ==
    /\ intent # None
    /\ DebugPythonScenario
    /\ intent.intentType = "debugging_help"
    /\ intent.confidence = 600
    /\ intent.shouldUseMCP

\* ---- fallback_to_web
\* the steps of s whose backend call has settled and that are a web_search
\* of fallback priority
FallbackRuns(s) ==
    {k \in 1..Len(s.outcomes) :
        /\ s.strategy.steps[k].type = "web_search"
        /\ s.strategy.steps[k].priority = "fallback"}

\* C32: the log holds a fallback_to_web event only for a web_search step of
\* fallback priority that ran after the catalog step; a search whose web
\* step is the high-priority first step leaves fallbackToWebCount at 0.
C32_FallbackEventOnlyOnFallback ==
    \A p \in Running :
        /\ CountOfType(recorded, "fallback_to_web")
              <= Cardinality(FallbackRuns(inv[p]))
        /\ inv[p].strategy.steps[1].type = "web_search"
              => getStats(events).fallbackToWebCount = 0

\* a web-first search recorded a fallback_to_web event
C32_PrimaryWebCounted ==
    \E p \in Running :
        /\ inv[p].strategy.steps[1].type = "web_search"
        /\ inv[p].strategy.steps[1].priority = "high"
        /\ inv[p].outcomes # <<>>
        /\ inv[p].outcomes[1].ok
        /\ getStats(events).fallbackToWebCount = 1

\* ---- the events of one search()
TypesRecorded == [i \in 1..Len(recorded) |-> recorded[i].eventType]

DiscoveryCount ==
    CountOfType(recorded, "mcp_resources_found")
      + CountOfType(recorded, "mcp_resources_not_found")

\* C33: with telemetry enabled, a search() records exactly one mcp_consulted
\* event, as its first event and before any backend call has settled, whatever
\* the strategy; exactly one search_completed event, recorded last, when it
\* returns and none before, with success = true exactly when the returned
\* list is non-empty; and at most one mcp_resources_found or
\* mcp_resources_not_found event between the two.
C33_OneConsultOneCompletion ==
    \A p \in Running :
        LET s == inv[p]
            n == Len(recorded)
        IN  /\ CountOfType(recorded, "mcp_consulted") = 1
            /\ recorded[1].eventType = "mcp_consulted"
            /\ s.outcomes = <<>> => n = 1
            /\ DiscoveryCount <= 1
            /\ s.pc # "done" => CountOfType(recorded, "search_completed") = 0
            /\ s.pc = "done" =>
                 /\ CountOfType(recorded, "search_completed") = 1
                 /\ recorded[n].eventType = "search_completed"
                 /\ recorded[n].success = (Len(s.response.results) > 0)
                 /\ recorded[n].resultCount = Len(s.response.results)

\* C33 witness: a search without a catalog step returned nothing
C33_Witness ==
    \E p \in Running :
        /\ inv[p].pc = "done"
        /\ \A k \in 1..Len(inv[p].strategy.steps) :
              inv[p].strategy.steps[k].type = "web_search"
        /\ inv[p].response.results = <<>>
        /\ recorded[1].eventType = "mcp_consulted"
        /\ ~recorded[Len(recorded)].success

\* C33 second case: both backends ran and results came back
C33_FoundThenCompleted ==
    \E p \in Running :
        /\ inv[p].pc = "done"
        /\ TypesRecorded = <<"mcp_consulted", "mcp_resources_found",
                             "fallback_to_web", "search_completed">>
        /\ recorded[Len(recorded)].success

\* ---- the counters of a log filled by searches
\* C34: in a log written by search() invocations only, the lookups that
\* found or did not find resources never outnumber the consultations:
\* successfulMCPConsultations + unsuccessfulMCPConsultations
\* <= totalConsultations, each counted as getStats counts it.
C34_DiscoveriesWithinConsultations ==
    CountOfType(events, "mcp_resources_found")
      + CountOfType(events, "mcp_resources_not_found")
        <= CountOfType(events, "mcp_consulted")

\* ---- the shape of a strategy
\* C35: a strategy has one or two steps; the first has priority high; a
\* second step has priority fallback or supplementary and the other backend;
\* a fallback step is a web_search and a supplementary step is an mcp_search.
C35_StrategyShape ==
    plan # None =>
        LET steps == plan.steps
        IN  /\ Len(steps) \in {1, 2}
            /\ steps[1].priority = "high"
            /\ steps[1].type \in {"mcp_search", "web_search"}
            /\ Len(steps) = 2 =>
                 /\ steps[2].priority \in {"fallback", "supplementary"}
                 /\ steps[2].type \in {"mcp_search", "web_search"}
                 /\ steps[2].type # steps[1].type
            /\ \A k \in 1..Len(steps) :
                 /\ steps[k].priority = "fallback" => steps[k].type = "web_search"
                 /\ steps[k].priority = "supplementary"
                      => steps[k].type = "mcp_search"

\* C35 witness: a web-first plan with a supplementary catalog step, made with
\* fallbackToWeb switched off
C35_Witness ==
    /\ plan # None
    /\ ~CallPreferences.fallbackToWeb
    /\ Len(plan.steps) = 2
    /\ plan.steps[1].type = "web_search"
    /\ plan.steps[2].priority = "supplementary"

\* C35 second case: a plan of one step
C35_SingleStep ==
    /\ plan # None
    /\ Len(plan.steps) = 1
    /\ plan.steps[1].type = "web_search"

\* ---- the gap in the confidence scale
HasSupplementary(steps) ==
    \E k \in 1..Len(steps) : steps[k].priority = "supplementary"

\* C36: the confidence is 0 or at least 0.5; it is 0 exactly when the intent
\* is general_question, which is exactly when no pattern matched; every other
\* intent passes the test confidence > 0.4; and a plan holds the supplementary
\* catalog step exactly when shouldUseMCP is false and a pattern matched.
C36_ConfidenceZeroOrHalf ==
    /\ intent # None =>
         /\ intent.confidence = 0 \/ intent.confidence >= 500
         /\ intent.confidence = 0 <=> intent.intentType = "general_question"
         /\ intent.intentType = "general_question" <=> MatchedFamilies = {}
         /\ intent.intentType # "general_question" => intent.confidence > 400
    /\ plan # None =>
         /\ plan.intent.confidence = 0 \/ plan.intent.confidence >= 500
         /\ HasSupplementary(plan.steps)
              <=> (~plan.intent.shouldUseMCP /\ MatchedFamilies # {})

\* C36 witness: one matched pattern, no keyword: confidence 0.5 stays below the
\* threshold and the catalog is planned as a supplement
C36_Witness ==
    /\ intent # None
    /\ plan # None
    /\ intent.confidence = 500
    /\ ~plan.intent.shouldUseMCP
    /\ HasSupplementary(plan.steps)

\* C36 second case: nothing matched, three keywords, no supplement
C36_GeneralQuestion ==
    /\ plan # None
    /\ query.tech = MaxTech
    /\ plan.intent.intentType = "general_question"
    /\ plan.intent.confidence = 0
    /\ ~HasSupplementary(plan.steps)

\* ---- preferences replaced while a search is suspended
\* updatePreferences ran after the strategy of s was built: the strategy is
\* not the one the live preferences give, and one update was made
UpdatedSince(s) ==
    /\ updates = 1
    /\ prefsOp.op = "updatePreferences"
    /\ s.strategy # createSearchStrategy(s.query, userPreferences)

\* C37: a search decides from the preferences in effect when its strategy was
\* built: after an updatePreferences made while it was suspended, a planned
\* web fallback is still invoked once the catalog step has settled, and the
\* returned results are ordered as the earlier preferences order them.
C37_DecisionsFromStartPreferences ==
    \A p \in Returned :
        LET s == inv[p]
        IN  UpdatedSince(s) =>
              /\ CatalogThenFallback(s) => Made(s, "web")
              /\ s.response.results = sortResults(s.results, prefsOp.before)

\* fallbackToWeb was switched off during the catalog call: the planned web
\* step was not run
C37_EarlyExitFollowsUpdate ==
    \E p \in Returned :
        /\ UpdatedSince(inv[p])
        /\ prefsOp.before.fallbackToWeb
        /\ CatalogThenFallback(inv[p])
        /\ ~Made(inv[p], "web")

\* mcpFirst was switched off during the search: a web result is returned in
\* front of a catalog result
C37_OrderFollowsUpdate ==
    \E p \in Returned :
        LET results == inv[p].response.results
        IN  /\ UpdatedSince(inv[p])
            /\ prefsOp.before.mcpFirst
            /\ Len(results) >= 2
            /\ results[1].source = "web"
            /\ results[Len(results)].source = "mcp"

\* ---- the repository the cache was listed from
\* the tree entry of repo that an item was made from (the two trees share no
\* path)
ListedFrom(item, repo) ==
    \E i \in 1..Len(TreeOf(repo)) : TreeOf(repo)[i].path = item.path

CachedArray == IF cachedItems = None THEN <<>> ELSE cachedItems.array

\* C38: whenever the in-memory cache holds items, every one of them was
\* listed from the configured repository (so that after set_repo the cache
\* holds nothing of the repository configured before), and its rawUrl names
\* the repository its path was listed from.
C38_CacheOfConfiguredRepo ==
    \A i \in 1..Len(CachedArray) :
        /\ ListedFrom(CachedArray[i], CONTENT_REPO)
        /\ ListedFrom(CachedArray[i], CachedArray[i].rawUrl.repo)

\* set_repo has returned, no call reads the extension cache, and the cache
\* holds an item of the repository configured before under a rawUrl of the
\* new one
C38_StaleListingCached ==
    /\ CONTENT_REPO = OtherRepo
    /\ \E r \in RequestIds :
          /\ req[r].pc = "done" /\ req[r].tool = "build_index"
          /\ req[r].forceRefresh
          /\ req[r].listing = DefaultRepo
    /\ \E i \in 1..Len(CachedArray) :
          /\ ListedFrom(CachedArray[i], DefaultRepo)
          /\ CachedArray[i].rawUrl.repo = OtherRepo

\* ---- the age of what the in-memory cache holds
\* With MAX_ITEMS at most MaxLimit no index built from a tree holds the item
\* of ExtensionItems, so that item in the cache was adopted from storage.json
\* and is as old as the file; any other item was fetched when cachedAt was
\* set.  A file whose date cannot be read tells no age.
FromExtension(item) ==
    /\ \E i \in 1..Len(ExtensionItems) : ExtensionItems[i] = item
    /\ storage.file = "object"
    /\ storage.updatedAt # None
    /\ storage.updatedAt.date = "valid"

ObtainedAt(item, at) ==
    IF FromExtension(item) THEN storage.updatedAt.time ELSE at.time

\* line 122: buildIndex(false) of request r returns the in-memory cache
ReturnsFromMemory(r) ==
    /\ req[r].pc = "idle"
    /\ req'[r].pc = "done"
    /\ req'[r].tool = "build_index"
    /\ ~req'[r].forceRefresh
    /\ req'[r].calls = <<>>

\* C39: the in-memory cache honours the TTL: no item that buildIndex(false)
\* returns from the in-memory cache was obtained (fetched from GitHub, or
\* written by the extension into its storage) CACHE_TTL_HOURS or more
\* before the call.
C39_CacheHonoursTtl ==
    [][\A r \in RequestIds :
          ReturnsFromMemory(r) =>
              \A i \in 1..Len(CachedArray) :
                  dateNow - ObtainedAt(CachedArray[i], cachedAt)
                      < CACHE_TTL_HOURS]_vars

====
